---- MODULE Spec2Model ----
(***************************************************************************)
(* Verification model of the dataset-synthesis engine of gravitation3:     *)
(* the five collectors (collect_*_data.py: simulator, simulate_trajectory, *)
(* collect_data, save_dataset, main) and the trainers' prepare_sequences.  *)
(*                                                                         *)
(* Numbers.  A float64 is modelled as a fixed-point integer counting       *)
(* 1/Scale units, finite in -MaxFloat..MaxFloat, with three non-finite     *)
(* values PosInf, NegInf and NaN that propagate as IEEE-754 prescribes.    *)
(* Every arithmetic result is rounded toward zero onto the grid.  The      *)
(* finite range is far narrower than that of a float64, so that overflow   *)
(* is met within a few integration steps.                                  *)
(*                                                                         *)
(* Evaluation.  Python evaluates an expression once and binds the result;  *)
(* Only({e(x) : x \in {v}}) does the same: v is evaluated once and e sees  *)
(* its value.                                                              *)
(***************************************************************************)
EXTENDS Integers, Sequences, FiniteSets, TLC

(***************************************************************************)
(* Bounds of the model.                                                    *)
(***************************************************************************)
Scale == 1000
MaxFloat == 1000000
MaxTraj == 2
MaxSteps == 3

Only(S) == CHOOSE v \in S : TRUE

(***************************************************************************)
(* float64 arithmetic as numpy performs it (no exception, inf/nan result). *)
(***************************************************************************)
PosInf == MaxFloat + 1
NegInf == 0 - (MaxFloat + 1)
NaN == MaxFloat + 2

IsFinite(a) == Only({x >= 0 - MaxFloat /\ x <= MaxFloat : x \in {a}})

Quot(n, d) == Only({IF x >= 0 THEN x \div y ELSE 0 - ((0 - x) \div y) : x \in {n}, y \in {d}})

Round(n) ==
    Only({IF x > MaxFloat THEN PosInf ELSE IF x < 0 - MaxFloat THEN NegInf ELSE x : x \in {n}})

Sign(a) == Only({IF x > 0 THEN 1 ELSE IF x < 0 THEN 0 - 1 ELSE 0 : x \in {a}})

FNeg(a) == Only({IF x = NaN THEN NaN ELSE 0 - x : x \in {a}})

FAbs(a) == Only({IF x = NaN THEN NaN ELSE IF x < 0 THEN 0 - x ELSE x : x \in {a}})

FAdd(a, b) ==
    Only({IF x = NaN \/ y = NaN THEN NaN
          ELSE IF ~IsFinite(x) /\ ~IsFinite(y) THEN (IF x = y THEN x ELSE NaN)
          ELSE IF ~IsFinite(x) THEN x
          ELSE IF ~IsFinite(y) THEN y
          ELSE Round(x + y) : x \in {a}, y \in {b}})

FSub(a, b) == FAdd(a, FNeg(b))

FMul(a, b) ==
    Only({IF x = NaN \/ y = NaN THEN NaN
          ELSE IF ~IsFinite(x) \/ ~IsFinite(y)
               THEN (IF x = 0 \/ y = 0 THEN NaN
                     ELSE IF Sign(x) * Sign(y) > 0 THEN PosInf ELSE NegInf)
          ELSE Only({Round(Sign(x) * Sign(y) * ((ax \div Scale) * ay + ((ax % Scale) * ay) \div Scale))
                     : ax \in {FAbs(x)}, ay \in {FAbs(y)}}) : x \in {a}, y \in {b}})

FDiv(a, b) ==
    Only({IF x = NaN \/ y = NaN THEN NaN
          ELSE IF ~IsFinite(x) /\ ~IsFinite(y) THEN NaN
          ELSE IF ~IsFinite(x)
               THEN (IF Sign(x) * (IF y < 0 THEN 0 - 1 ELSE 1) > 0 THEN PosInf ELSE NegInf)
          ELSE IF ~IsFinite(y) THEN 0
          ELSE IF y = 0 THEN (IF x = 0 THEN NaN ELSE IF x > 0 THEN PosInf ELSE NegInf)
          ELSE Round(Sign(y) * Quot(x * Scale, FAbs(y))) : x \in {a}, y \in {b}})

\* c * a for an exact rational factor c = num / den (num >= 0, den > 0)
FScale(num, den, a) ==
    Only({IF x = NaN THEN NaN
          ELSE IF ~IsFinite(x) THEN (IF num = 0 THEN NaN ELSE x)
          ELSE Round(Quot(num * x, den)) : x \in {a}})

\* a < b and a > b on floats: every comparison with NaN is false
FLess(a, b) == Only({x # NaN /\ y # NaN /\ x < y : x \in {a}, y \in {b}})

FGreater(a, b) == FLess(b, a)

\* elementwise numpy array arithmetic on state vectors
VAdd(u, v) == Only({[i \in DOMAIN x |-> FAdd(x[i], y[i])] : x \in {u}, y \in {v}})

VScale(num, den, v) == Only({[i \in DOMAIN x |-> FScale(num, den, x[i])] : x \in {v}})

IsFiniteVec(v) == Only({\A i \in DOMAIN x : IsFinite(x[i]) : x \in {v}})

\* a product evaluated left to right, as Python does
RECURSIVE FProdTo(_, _)
FProdTo(fs, n) == IF n = 1 THEN fs[1] ELSE FMul(FProdTo(fs, n - 1), fs[n])

FProd(fs) == Only({FProdTo(x, Len(x)) : x \in {fs}})

\* np.sum / running += over a vector, first element first
RECURSIVE FSumTo(_, _)
FSumTo(fs, n) == IF n = 0 THEN 0 ELSE FAdd(FSumTo(fs, n - 1), fs[n])

FSum(fs) == Only({FSumTo(x, Len(x)) : x \in {fs}})

\* the largest r in lo..hi with r * r <= n, by bisection
RECURSIVE ISqrtBetween(_, _, _)
ISqrtBetween(n, lo, hi) ==
    IF lo = hi THEN lo
    ELSE Only({IF mid * mid <= n THEN ISqrtBetween(n, mid, hi) ELSE ISqrtBetween(n, lo, mid - 1)
               : mid \in {(lo + hi + 1) \div 2}})

\* np.sqrt
NpSqrt(a) ==
    Only({IF x = NaN \/ x < 0 THEN NaN
          ELSE IF x = PosInf THEN PosInf
          ELSE ISqrtBetween(x * Scale, 0, 46340) : x \in {a}})

\* ln 2
Ln2 == Quot(693147 * Scale, 1000000)

\* ln on [1, 2): 2z (1 + z^2/3 + z^4/5) with z = (x - 1) / (x + 1)
LogNearOne(x) ==
    Only({Only({Quot(2 * z * (Scale + Quot(z2, 3) + Quot(z2 * z2, 5 * Scale)), Scale)
                : z2 \in {Quot(z * z, Scale)}})
          : z \in {Quot((x - Scale) * Scale, x + Scale)}})

\* ln of a positive grid value, halving or doubling it into [1, 2)
RECURSIVE LogOf(_)
LogOf(x) ==
    IF x >= 2 * Scale THEN Ln2 + LogOf(x \div 2)
    ELSE IF x < Scale THEN LogOf(2 * x) - Ln2
    ELSE LogNearOne(x)

\* np.log
NpLog(a) ==
    Only({IF x = NaN \/ x < 0 THEN NaN
          ELSE IF x = 0 THEN NegInf
          ELSE IF x = PosInf THEN PosInf
          ELSE LogOf(x) : x \in {a}})

\* np.mean of a non-empty list
NpMean(xs) == Only({FScale(1, Len(v), FSum(v)) : v \in {xs}})

\* np.std: the root of the mean squared deviation from the mean
NpStd(xs) ==
    Only({Only({NpSqrt(NpMean([j \in 1..Len(v) |-> FMul(FSub(v[j], m), FSub(v[j], m))]))
                : m \in {NpMean(v)}}) : v \in {xs}})

(***************************************************************************)
(* numpy transcendental functions on the grid.                             *)
(***************************************************************************)
Pi == Quot(314159 * Scale, 100000)

TwoPi == 2 * Pi

\* sin on [0, pi] (rational approximation, exact at 0, pi/6, pi/2, pi)
SinHalfTurn(r) == Quot(16 * r * (Pi - r), Quot(5 * Pi * Pi - 4 * r * (Pi - r), Scale))

NpSin(a) ==
    Only({IF ~IsFinite(x) THEN NaN
          ELSE Only({IF r <= Pi THEN SinHalfTurn(r) ELSE 0 - SinHalfTurn(r - Pi) : r \in {x % TwoPi}})
          : x \in {a}})

NpCos(a) == Only({IF ~IsFinite(x) THEN NaN ELSE NpSin(x + Quot(Pi, 2)) : x \in {a}})

\* np.arctan2(np.tan(angle), 1.0): the angle brought back into (-pi/2, pi/2)
NpArctanTan(a) ==
    Only({IF ~IsFinite(x) THEN NaN ELSE ((x + Quot(Pi, 2)) % Pi) - Quot(Pi, 2) : x \in {a}})

\* np.maximum(0, v); a NaN element stays NaN
\* a variant that clamps nothing
NpMaximum0Not(v) == v

NpMaximum0(v) ==
    Only({[j \in DOMAIN x |-> IF x[j] = NaN THEN NaN ELSE IF x[j] < 0 THEN 0 ELSE x[j]] : x \in {v}})

(***************************************************************************)
(* np.random.random(): the values a draw may return, and the streams of    *)
(* consecutive draws the model follows.                                    *)
(***************************************************************************)
RandomDraws == {0, Quot(Scale, 8), Quot(7 * Scale, 8)}

\* numpy's global generator: its state is the seed it was given together with
\* the number of values drawn since; the model's generator repeats its seed
\* with period StreamPeriod
StreamPeriod == 2

Seeds == [1..StreamPeriod -> RandomDraws]

Generators == {[seed |-> seed, pos |-> 0] : seed \in Seeds}

\* the next n values of the generator
Drawn(gen, n) == [i \in 1..n |-> gen.seed[((gen.pos + i - 1) % StreamPeriod) + 1]]

\* the generator after n draws
Advanced(gen, n) == [gen EXCEPT !.pos = @ + n]

\* (np.random.random() - 0.5) * width + centre
Centered(u, width, centre) == FAdd(FMul(FSub(u, Quot(Scale, 2)), width), centre)

\* np.random.uniform(low, high)
Uniform(u, low, high) == FAdd(low, FMul(u, FSub(high, low)))

(***************************************************************************)
(* Lorenz attractor: collect_lorenz_data.py                                *)
(***************************************************************************)
\* dt=0.01, the default of every simulator but the double gyre
Dt == Quot(Scale, 100)

LorenzSimulator(sigma, rho, beta) ==
    [sigma |-> sigma, rho |-> rho, beta |-> beta, dt |-> Dt, time |-> 0,
     state |-> <<Quot(Scale, 10), 0, 0>>]

LorenzDerivatives(sim, state) ==
    Only({<<FMul(sim.sigma, FSub(y, x)),
            FSub(FMul(x, FSub(sim.rho, z)), y),
            FSub(FMul(x, y), FMul(sim.beta, z))>>
          : x \in {state[1]}, y \in {state[2]}, z \in {state[3]}})

LorenzInitialConditions(u) ==
    [x |-> Centered(u[1], 20 * Scale, 0),
     y |-> Centered(u[2], 30 * Scale, 0),
     z |-> Centered(u[3], 40 * Scale, 20 * Scale),
     sigma |-> Centered(u[4], 2 * Scale, 10 * Scale),
     rho |-> Centered(u[5], 10 * Scale, 28 * Scale),
     beta |-> Centered(u[6], Quot(Scale, 2), Quot(8 * Scale, 3))]

\* a variant of the point whose sigma entry is read from the moving state
LorenzPointSigmaFromState(sim, ic) ==
    [time |-> sim.time, x |-> sim.state[1], y |-> sim.state[2], z |-> sim.state[3],
     sigma |-> sim.state[1], rho |-> ic.rho, beta |-> ic.beta]

LorenzPoint(sim, ic) ==
    [time |-> sim.time, x |-> sim.state[1], y |-> sim.state[2], z |-> sim.state[3],
     sigma |-> ic.sigma, rho |-> ic.rho, beta |-> ic.beta]

(***************************************************************************)
(* Roessler attractor: collect_rossler_data.py                             *)
(***************************************************************************)
RosslerSimulator(a, b, c) ==
    [a |-> a, b |-> b, c |-> c, dt |-> Dt, time |-> 0,
     state |-> <<Quot(Scale, 10), 0, 0>>]

RosslerDerivatives(sim, state) ==
    Only({<<FSub(FNeg(y), z),
            FAdd(x, FMul(sim.a, y)),
            FAdd(sim.b, FMul(z, FSub(x, sim.c)))>>
          : x \in {state[1]}, y \in {state[2]}, z \in {state[3]}})

RosslerInitialConditions(u) ==
    [x |-> Centered(u[1], 3 * Scale, 0),
     y |-> Centered(u[2], 3 * Scale, 0),
     z |-> FAdd(Quot(Scale, 10), FMul(u[3], Quot(Scale, 2))),
     a |-> Quot(2 * Scale, 10), b |-> Quot(2 * Scale, 10), c |-> Quot(57 * Scale, 10)]

RosslerPoint(sim, ic) ==
    [time |-> sim.time, x |-> sim.state[1], y |-> sim.state[2], z |-> sim.state[3],
     a |-> ic.a, b |-> ic.b, c |-> ic.c]

(***************************************************************************)
(* Double pendulum: collect_double_pendulum_data.py                        *)
(***************************************************************************)
Gravity == Quot(981 * Scale, 100)

DoublePendulumSimulator(l1, l2, m1, m2) ==
    [l1 |-> l1, l2 |-> l2, m1 |-> m1, m2 |-> m2, g |-> Gravity, dt |-> Dt, time |-> 0,
     state |-> <<0, 0, 0, 0>>]

\* den1 and den2 of derivatives, for delta = theta2 - theta1
Denominators(sim, delta) ==
    Only({[den1 |-> den1, den2 |-> FMul(FDiv(sim.l2, sim.l1), den1)]
          : den1 \in {FSub(FMul(FAdd(sim.m1, sim.m2), sim.l1),
                           FProd(<<sim.m2, sim.l1, NpCos(delta), NpCos(delta)>>))}})

DoublePendulumDerivatives(sim, state) ==
    Only({Only({
        <<omega1,
          FDiv(FSub(FAdd(FAdd(FProd(<<sim.m2, sim.l1, omega1, omega1, sd, cd>>),
                              FProd(<<sim.m2, sim.g, NpSin(theta2), cd>>)),
                         FProd(<<sim.m2, sim.l2, omega2, omega2, sd>>)),
                    FProd(<<mm, sim.g, NpSin(theta1)>>)),
               den.den1),
          omega2,
          FDiv(FSub(FSub(FAdd(FProd(<<FNeg(sim.m2), sim.l2, omega2, omega2, sd, cd>>),
                              FProd(<<mm, sim.g, NpSin(theta1), cd>>)),
                         FProd(<<mm, sim.l1, omega1, omega1, sd>>)),
                    FProd(<<mm, sim.g, NpSin(theta2)>>)),
               den.den2)>>
        : sd \in {NpSin(FSub(theta2, theta1))}, cd \in {NpCos(FSub(theta2, theta1))},
          mm \in {FAdd(sim.m1, sim.m2)}, den \in {Denominators(sim, FSub(theta2, theta1))}})
        : theta1 \in {state[1]}, omega1 \in {state[2]}, theta2 \in {state[3]}, omega2 \in {state[4]}})

get_positions(sim) ==
    Only({[x1 |-> x1, y1 |-> y1,
           x2 |-> FAdd(x1, FMul(sim.l2, NpSin(sim.state[3]))),
           y2 |-> FSub(y1, FMul(sim.l2, NpCos(sim.state[3])))]
          : x1 \in {FMul(sim.l1, NpSin(sim.state[1]))},
            y1 \in {FMul(FNeg(sim.l1), NpCos(sim.state[1]))}})

get_energy(sim) ==
    Only({Only({
        FAdd(FAdd(FMul(FScale(1, 2, sim.m1), FAdd(FMul(v1x, v1x), FMul(v1y, v1y))),
                  FMul(FScale(1, 2, sim.m2), FAdd(FMul(v2x, v2x), FMul(v2y, v2y)))),
             FAdd(FProd(<<sim.m1, sim.g, pos.y1>>), FProd(<<sim.m2, sim.g, pos.y2>>)))
        : v2x \in {FAdd(v1x, FProd(<<sim.l2, sim.state[4], NpCos(sim.state[3])>>))},
          v2y \in {FAdd(v1y, FProd(<<sim.l2, sim.state[4], NpSin(sim.state[3])>>))}})
        : pos \in {get_positions(sim)},
          v1x \in {FProd(<<sim.l1, sim.state[2], NpCos(sim.state[1])>>)},
          v1y \in {FProd(<<sim.l1, sim.state[2], NpSin(sim.state[1])>>)}})

DoublePendulumInitialConditions(u) ==
    [theta1 |-> FMul(FScale(2, 1, FSub(u[1], Quot(Scale, 2))), Pi),
     theta2 |-> FMul(FScale(2, 1, FSub(u[2], Quot(Scale, 2))), Pi),
     omega1 |-> Centered(u[3], 10 * Scale, 0),
     omega2 |-> Centered(u[4], 10 * Scale, 0),
     l1 |-> FAdd(Quot(8 * Scale, 10), FMul(u[5], Quot(4 * Scale, 10))),
     l2 |-> FAdd(Quot(8 * Scale, 10), FMul(u[6], Quot(4 * Scale, 10))),
     m1 |-> FAdd(Quot(Scale, 2), FMul(u[7], Scale)),
     m2 |-> FAdd(Quot(Scale, 2), FMul(u[8], Scale))]

DoublePendulumPoint(sim) ==
    Only({[time |-> sim.time,
           theta1 |-> sim.state[1], omega1 |-> sim.state[2],
           theta2 |-> sim.state[3], omega2 |-> sim.state[4],
           x1 |-> pos.x1, y1 |-> pos.y1, x2 |-> pos.x2, y2 |-> pos.y2,
           energy |-> get_energy(sim)] : pos \in {get_positions(sim)}})

(***************************************************************************)
(* The Runge-Kutta step shared, line for line, by the Lorenz, Roessler and *)
(* double-pendulum simulators.                                             *)
(***************************************************************************)
\* state + (dt / 6) * (k1 + 2*k2 + 2*k3 + k4)
\* self.state + (self.dt / 6) * (k1 + 2*k2 + 2*k3 + k4)
\* a variant that weighs the four slopes alike
RK4CombineEqualWeights(state, dt, k1, k2, k3, k4) ==
    VAdd(state, VScale(dt, 4 * Scale, VAdd(VAdd(VAdd(k1, k2), k3), k4)))

RK4Combine(state, dt, k1, k2, k3, k4) ==
    VAdd(state, VScale(dt, 6 * Scale,
         VAdd(VAdd(VAdd(k1, VScale(2, 1, k2)), VScale(2, 1, k3)), k4)))

\* self.derivatives of the simulator class of system sys
Derivatives(sys, sim, state) ==
    CASE sys = "lorenz" -> LorenzDerivatives(sim, state)
      [] sys = "rossler" -> RosslerDerivatives(sim, state)
      [] sys = "double_pendulum" -> DoublePendulumDerivatives(sim, state)

step_rk4(sys, sim) ==
    Only({Only({Only({Only({
        [sim EXCEPT !.state = RK4Combine(sim.state, sim.dt, k1, k2, k3, k4),
                    !.time = sim.time + sim.dt]
        : k4 \in {Derivatives(sys, sim, VAdd(sim.state, VScale(sim.dt, Scale, k3)))}})
        : k3 \in {Derivatives(sys, sim, VAdd(sim.state, VScale(sim.dt, 2 * Scale, k2)))}})
        : k2 \in {Derivatives(sys, sim, VAdd(sim.state, VScale(sim.dt, 2 * Scale, k1)))}})
        : k1 \in {Derivatives(sys, sim, sim.state)}})

\* the arguments of the self.derivatives calls of step_rk4, in call order
step_rk4Evaluated(sys, sim) ==
    Only({Only({Only({
        <<sim.state, at2, at3, VAdd(sim.state, VScale(sim.dt, Scale, Derivatives(sys, sim, at3)))>>
        : at3 \in {VAdd(sim.state, VScale(sim.dt, 2 * Scale, Derivatives(sys, sim, at2)))}})
        : at2 \in {VAdd(sim.state, VScale(sim.dt, 2 * Scale, k1))}})
        : k1 \in {Derivatives(sys, sim, sim.state)}})

\* the assignments step_rk4 makes to the attributes of self, in order
step_rk4Stores(sys, sim) ==
    Only({<<[field |-> "state", value |-> after.state], [field |-> "time", value |-> after.time]>>
          : after \in {step_rk4(sys, sim)}})

LorenzStepRK4(sim) == step_rk4("lorenz", sim)

RosslerStepRK4(sim) == step_rk4("rossler", sim)

DoublePendulumStepRK4(sim) == step_rk4("double_pendulum", sim)

(***************************************************************************)
(* Malkus waterwheel: collect_malkus_data.py                               *)
(***************************************************************************)
num_buckets == 20

MalkusWheelSimulator(Q, K, nu) ==
    [num_buckets |-> num_buckets, Q |-> Q, K |-> K, nu |-> nu, dt |-> Dt, radius |-> Scale,
     omega |-> Quot(Scale, 10), theta |-> 0,
     bucket_masses |-> [i \in 1..num_buckets |-> 0], time |-> 0]

\* bucket i of the source (0-based) is index i + 1 of bucket_masses
get_bucket_angle(sim, i) == FAdd(sim.theta, Quot(TwoPi * i, sim.num_buckets))

calculate_torque(sim) ==
    FSum([j \in 1..sim.num_buckets |->
            FMul(sim.bucket_masses[j], NpSin(get_bucket_angle(sim, j - 1)))])

\* the inflow into bucket i computed inside derivatives
Inflow(sim, i) ==
    Only({IF FGreater(NpCos(angle), threshold)
          THEN FMul(FScale(1, 2, sim.Q),
                    FAdd(NpCos(FScale(sim.num_buckets, 2, NpArctanTan(angle))), Scale))
          ELSE 0
          : angle \in {get_bucket_angle(sim, i)},
            threshold \in {FAbs(NpCos(Quot(TwoPi, sim.num_buckets)))}})

MalkusDerivatives(sim) ==
    [domega |-> FSub(calculate_torque(sim), FMul(sim.nu, sim.omega)),
     dtheta |-> sim.omega,
     dmasses |-> [j \in 1..sim.num_buckets |->
                    FSub(Inflow(sim, j - 1), FMul(sim.K, sim.bucket_masses[j]))]]

\* a variant of the step that leaves self.time alone
MalkusStepEulerFrozenClock(sim) ==
    Only({[sim EXCEPT !.omega = FAdd(sim.omega, FScale(sim.dt, Scale, d.domega)),
                      !.theta = FAdd(sim.theta, FScale(sim.dt, Scale, d.dtheta)),
                      !.bucket_masses = NpMaximum0(VAdd(sim.bucket_masses,
                                                        VScale(sim.dt, Scale, d.dmasses)))]
          : d \in {MalkusDerivatives(sim)}})

MalkusStepEuler(sim) ==
    Only({[sim EXCEPT !.omega = FAdd(sim.omega, FScale(sim.dt, Scale, d.domega)),
                      !.theta = FAdd(sim.theta, FScale(sim.dt, Scale, d.dtheta)),
                      !.bucket_masses = NpMaximum0(VAdd(sim.bucket_masses,
                                                        VScale(sim.dt, Scale, d.dmasses))),
                      !.time = sim.time + sim.dt] : d \in {MalkusDerivatives(sim)}})

\* the assignments step_euler makes to the attributes of self, in order
MalkusStepEulerStores(sim) ==
    Only({<<[field |-> "omega", value |-> after.omega], [field |-> "theta", value |-> after.theta],
            [field |-> "bucket_masses", value |-> after.bucket_masses],
            [field |-> "time", value |-> after.time]>>
          : after \in {MalkusStepEuler(sim)}})

\* the assignments self.omega, self.theta, self.bucket_masses = ..._temp of rk4_step,
\* with the derivatives d taken before them and the factor num / den of dt
MalkusTemp(sim, d, num, den) ==
    [sim EXCEPT !.omega = FAdd(sim.omega, FScale(num * sim.dt, den * Scale, d.domega)),
                !.theta = FAdd(sim.theta, FScale(num * sim.dt, den * Scale, d.dtheta)),
                !.bucket_masses = VAdd(sim.bucket_masses,
                                       VScale(num * sim.dt, den * Scale, d.dmasses))]

\* d1 + 2*d2 + 2*d3 + d4 - 3*d5
MalkusCombine(d1, d2, d3, d4, d5) ==
    FSub(FAdd(FAdd(FAdd(d1, FScale(2, 1, d2)), FScale(2, 1, d3)), d4), FScale(3, 1, d5))

\* a variant of the Combine lines that leaves the bucket masses unclamped
MalkusRK4CombineUnclamped(s3, d1, d2, d3, d4) ==
    Only({[s3 EXCEPT
              !.omega = new_omega,
              !.theta = FAdd(s3.theta, FScale(s3.dt, 6 * Scale,
                             MalkusCombine(d1.dtheta, d2.dtheta, d3.dtheta, d4.dtheta,
                                           MalkusDerivatives([s3 EXCEPT !.omega = new_omega]).dtheta)))]
          : new_omega \in {FAdd(s3.omega, FScale(s3.dt, 6 * Scale,
                                MalkusCombine(d1.domega, d2.domega, d3.domega, d4.domega,
                                              MalkusDerivatives(s3).domega)))}})

\* the Combine lines of rk4_step, on the object s3 the k4 stage left: the
\* derivatives() call of the theta line sees the omega just assigned
MalkusRK4Combine(s3, d1, d2, d3, d4) ==
    Only({[s3 EXCEPT
              !.omega = new_omega,
              !.theta = FAdd(s3.theta, FScale(s3.dt, 6 * Scale,
                             MalkusCombine(d1.dtheta, d2.dtheta, d3.dtheta, d4.dtheta,
                                           MalkusDerivatives([s3 EXCEPT !.omega = new_omega]).dtheta))),
              !.bucket_masses = NpMaximum0(s3.bucket_masses)]
          : new_omega \in {FAdd(s3.omega, FScale(s3.dt, 6 * Scale,
                                MalkusCombine(d1.domega, d2.domega, d3.domega, d4.domega,
                                              MalkusDerivatives(s3).domega)))}})

\* the k4 stage of rk4_step, on the object s2 the k3 stage left
MalkusRK4Stage4(s2, d1, d2, d3) ==
    Only({MalkusRK4Combine(s3, d1, d2, d3, MalkusDerivatives(s3))
          : s3 \in {MalkusTemp(s2, d3, 1, 1)}})

\* rk4_step: each stage overwrites the object before the next derivatives()
\* call; the time is not advanced
MalkusRK4Step(sim) ==
    Only({Only({Only({Only({
        MalkusRK4Stage4(s2, d1, d2, MalkusDerivatives(s2))
        : s2 \in {MalkusTemp(s1, d2, 1, 2)}})
        : d2 \in {MalkusDerivatives(s1)}})
        : s1 \in {MalkusTemp(sim, d1, 1, 2)}})
        : d1 \in {MalkusDerivatives(sim)}})

\* the objects the k2, k3 and k4 stages of rk4_step leave, and the object the
\* Combine lines leave
MalkusRK4Stages(sim) ==
    Only({Only({Only({<<s1, s2, s3, MalkusRK4Step(sim)>>
        : s3 \in {MalkusTemp(s2, MalkusDerivatives(s2), 1, 1)}})
        : s2 \in {MalkusTemp(s1, MalkusDerivatives(s1), 1, 2)}})
        : s1 \in {MalkusTemp(sim, MalkusDerivatives(sim), 1, 2)}})

\* omega, theta and bucket_masses of the object at each self.derivatives()
\* call of rk4_step, in call order: k1 .. k4, then the two calls of Combine
MalkusRK4Evaluated(sim) ==
    Only({<<sim, stages[1], stages[2], stages[3], stages[3],
            [stages[3] EXCEPT !.omega = stages[4].omega]>>
          : stages \in {MalkusRK4Stages(sim)}})

\* the assignments rk4_step makes to the attributes of self, in order
MalkusRK4Stores(sim) ==
    Only({[k \in 1..12 |->
              Only({[field |-> <<"omega", "theta", "bucket_masses">>[((k - 1) % 3) + 1],
                     value |-> CASE (k - 1) % 3 = 0 -> after.omega
                                 [] (k - 1) % 3 = 1 -> after.theta
                                 [] (k - 1) % 3 = 2 -> after.bucket_masses]
                    : after \in {stages[((k - 1) \div 3) + 1]}})]
          : stages \in {MalkusRK4Stages(sim)}})

MalkusReset(sim, omega, theta) ==
    [sim EXCEPT !.omega = omega, !.theta = theta,
                !.bucket_masses = [i \in 1..sim.num_buckets |-> 0], !.time = 0]

MalkusInitialConditions(u) ==
    [omega |-> Uniform(u[1], Quot(Scale, 100), Quot(3 * Scale, 10)),
     theta |-> Uniform(u[2], 0, TwoPi),
     Q |-> Uniform(u[3], Quot(15 * Scale, 10), Quot(35 * Scale, 10)),
     K |-> Uniform(u[4], Quot(5 * Scale, 100), Quot(2 * Scale, 10)),
     nu |-> Uniform(u[5], Quot(Scale, 2), Quot(15 * Scale, 10))]

MalkusPoint(sim, ic) ==
    [time |-> sim.time, omega |-> sim.omega, theta |-> sim.theta,
     Q |-> ic.Q, K |-> ic.K, nu |-> ic.nu,
     bucket_mass_sum |-> FSum(sim.bucket_masses)]

(***************************************************************************)
(* Double gyre: collect_double_gyre_data.py                                *)
(***************************************************************************)
GyreDt == Quot(2 * Scale, 100)

DoubleGyreSimulator(A, epsilon, omega) ==
    [A |-> A, epsilon |-> epsilon, omega |-> omega, dt |-> GyreDt,
     domainWidth |-> 2 * Scale, domainHeight |-> Scale,
     time |-> 0, state |-> <<Quot(Scale, 2), Quot(Scale, 2)>>]

get_time_functions(sim, t) ==
    Only({[a |-> FMul(sim.epsilon, sin_omega_t),
           b |-> FSub(Scale, FMul(FScale(2, 1, sim.epsilon), sin_omega_t))]
          : sin_omega_t \in {NpSin(FMul(sim.omega, t))}})

calculate_f(sim, x, t) ==
    Only({[f |-> FAdd(FProd(<<ab.a, x, x>>), FMul(ab.b, x)),
           dfdx |-> FAdd(FMul(FScale(2, 1, ab.a), x), ab.b)]
          : ab \in {get_time_functions(sim, t)}})

get_velocity(sim, x, y, t) ==
    Only({Only({[u |-> FProd(<<FNeg(Pi), sim.A, NpSin(pi_f), NpCos(pi_y)>>),
                 v |-> FProd(<<Pi, sim.A, NpCos(pi_f), NpSin(pi_y), fd.dfdx>>)]
                : pi_f \in {FMul(Pi, fd.f)}, pi_y \in {FMul(Pi, y)}})
          : fd \in {calculate_f(sim, x, t)}})

GyreReset(sim, x, y) == [sim EXCEPT !.state = <<x, y>>, !.time = 0]

\* Boundary wrapping of new_x
WrapX(sim, new_x) ==
    IF FLess(new_x, 0) THEN FAdd(new_x, sim.domainWidth)
    ELSE IF FGreater(new_x, sim.domainWidth) THEN FSub(new_x, sim.domainWidth)
    ELSE new_x

\* Boundary reflection for new_y
\* a variant that leaves new_y as it is
ReflectYNot(sim, new_y) == new_y

ReflectY(sim, new_y) ==
    IF FLess(new_y, 0) THEN FNeg(new_y)
    ELSE IF FGreater(new_y, sim.domainHeight) THEN FSub(FScale(2, 1, sim.domainHeight), new_y)
    ELSE new_y

GyreStepEuler(sim) ==
    Only({Only({[sim EXCEPT !.state = <<WrapX(sim, new_x), ReflectY(sim, new_y)>>,
                            !.time = sim.time + sim.dt]
                : new_x \in {FAdd(sim.state[1], FScale(sim.dt, Scale, uv.u))},
                  new_y \in {FAdd(sim.state[2], FScale(sim.dt, Scale, uv.v))}})
          : uv \in {get_velocity(sim, sim.state[1], sim.state[2], sim.time)}})

\* the assignments step_euler makes to the attributes of self, in order
GyreStepEulerStores(sim) ==
    Only({<<[field |-> "state", value |-> after.state], [field |-> "time", value |-> after.time]>>
          : after \in {GyreStepEuler(sim)}})

GyreInitialConditions(u) ==
    [x |-> FMul(u[1], 2 * Scale),
     y |-> FMul(u[2], Scale),
     A |-> Centered(u[3], Quot(5 * Scale, 100), Quot(Scale, 10)),
     epsilon |-> Centered(u[4], Quot(Scale, 10), Quot(Scale, 4)),
     omega |-> Centered(u[5], Quot(3 * Scale, 10), Quot(Scale, 2))]

GyrePoint(sim, ic) ==
    [time |-> sim.time, x |-> sim.state[1], y |-> sim.state[2],
     A |-> ic.A, epsilon |-> ic.epsilon, omega |-> ic.omega]

(***************************************************************************)
(* Diagnostics of the double pendulum: collect_double_pendulum_data.py.    *)
(* Index i of the source (0-based) is index i + 1 of a trajectory here.    *)
(***************************************************************************)
\* [abs(trajectory[i][key] - trajectory[i-1][key]) for i in range(1, len(trajectory))]
Theta1Changes(trajectory) ==
    [i \in 1..(Len(trajectory) - 1) |-> FAbs(FSub(trajectory[i + 1].theta1, trajectory[i].theta1))]

Theta2Changes(trajectory) ==
    [i \in 1..(Len(trajectory) - 1) |-> FAbs(FSub(trajectory[i + 1].theta2, trajectory[i].theta2))]

\* the loop `correlation += (diff1 + diff2)` over range(mid), up to index n
RECURSIVE CorrelationSum(_, _, _)
CorrelationSum(trajectory, mid, n) ==
    IF n = 0 THEN 0
    ELSE FAdd(CorrelationSum(trajectory, mid, n - 1),
              FAdd(FAbs(FSub(trajectory[n].omega1, trajectory[n + mid].omega1)),
                   FAbs(FSub(trajectory[n].omega2, trajectory[n + mid].omega2))))

\* correlation /= mid
Correlation(trajectory) ==
    Only({FScale(1, mid, CorrelationSum(trajectory, mid, mid)) : mid \in {Len(trajectory) \div 2}})

\* 1e-10, which the grid does not tell from zero
Tiny == 0

\* distance = np.sqrt(d1**2 + d2**2) of the points at indices i and i - 10
LagDistance(trajectory, i) ==
    Only({NpSqrt(FAdd(FMul(d1, d1), FMul(d2, d2)))
          : d1 \in {FAbs(FSub(trajectory[i + 1].theta1, trajectory[i - 10 + 1].theta1))},
            d2 \in {FAbs(FSub(trajectory[i + 1].theta2, trajectory[i - 10 + 1].theta2))}})

\* a variant of the loop without the test on the distance
RECURSIVE LyapunovLoopAllPairs(_, _)
LyapunovLoopAllPairs(trajectory, n) ==
    IF n <= 10 THEN [sum_log |-> 0, count |-> 0]
    ELSE Only({[sum_log |-> FAdd(before.sum_log, NpLog(distance)), count |-> before.count + 1]
               : before \in {LyapunovLoopAllPairs(trajectory, n - 1)},
                 distance \in {LagDistance(trajectory, n - 1)}})

\* sum_log and count after the iterations i = 10 .. n - 1 of the loop
RECURSIVE LyapunovLoop(_, _)
LyapunovLoop(trajectory, n) ==
    IF n <= 10 THEN [sum_log |-> 0, count |-> 0]
    ELSE Only({IF FGreater(distance, Tiny)
               THEN [sum_log |-> FAdd(before.sum_log, NpLog(distance)), count |-> before.count + 1]
               ELSE before
               : before \in {LyapunovLoop(trajectory, n - 1)},
                 distance \in {LagDistance(trajectory, n - 1)}})

calculate_lyapunov_approximation(trajectory) ==
    IF Len(trajectory) < 20 THEN 0
    ELSE Only({IF done.count > 0 THEN FScale(1, done.count, done.sum_log) ELSE 0
               : done \in {LyapunovLoop(trajectory, Len(trajectory))}})

\* a variant of the if / elif / else that tests for 'resonant' first
ClassificationLogicResonantFirst(correlation, std_theta1, std_theta2) ==
    IF FLess(correlation, 5 * Scale)
       /\ (FLess(std_theta1, Quot(5 * Scale, 10)) \/ FLess(std_theta2, Quot(5 * Scale, 10)))
    THEN "resonant"
    ELSE IF FLess(correlation, 3 * Scale)
            /\ FLess(std_theta1, Quot(3 * Scale, 10)) /\ FLess(std_theta2, Quot(3 * Scale, 10))
    THEN "periodic"
    ELSE "chaotic"

\* the if / elif / else at the end of classify_behavior
ClassificationLogic(correlation, std_theta1, std_theta2) ==
    IF FLess(correlation, 3 * Scale)
       /\ FLess(std_theta1, Quot(3 * Scale, 10)) /\ FLess(std_theta2, Quot(3 * Scale, 10))
    THEN "periodic"
    ELSE IF FLess(correlation, 5 * Scale)
            /\ (FLess(std_theta1, Quot(5 * Scale, 10)) \/ FLess(std_theta2, Quot(5 * Scale, 10)))
    THEN "resonant"
    ELSE "chaotic"

\* a variant that lets a large energy drift decide
classify_behaviorByDrift(trajectory, energy_drift) ==
    IF Len(trajectory) < 10 \/ FGreater(energy_drift, Quot(Scale, 10)) THEN "chaotic"
    ELSE ClassificationLogic(Correlation(trajectory),
                             NpStd(Theta1Changes(trajectory)), NpStd(Theta2Changes(trajectory)))

classify_behavior(trajectory, energy_drift) ==
    IF Len(trajectory) < 10 THEN "chaotic"
    ELSE ClassificationLogic(Correlation(trajectory),
                             NpStd(Theta1Changes(trajectory)), NpStd(Theta2Changes(trajectory)))

(***************************************************************************)
(* The collector scripts: state of one run of main().                      *)
(***************************************************************************)
VARIABLES
    system,                 \* which collector script is running
    num_trajectories,       \* argument of collect_data
    samples_per_trajectory, \* argument of collect_data
    traj_id,                \* loop variable of collect_data
    ic,                     \* initial conditions of the current trajectory
    sim,                    \* the simulator object inside simulate_trajectory
    step,                   \* iterations of simulate_trajectory's loop done so far
    trajectory,             \* the list simulate_trajectory builds
    result,                 \* what simulate_trajectory computes besides the list
    all_samples,            \* the list collect_data builds
    dataset,                \* the document save_dataset has written, or NoDataset
    rng,                    \* the state of np.random's global generator
    pc                      \* position of the run

collectVars == <<system, num_trajectories, samples_per_trajectory, traj_id, ic, sim,
                 step, trajectory, result, all_samples, dataset, rng, pc>>

\* state of one call of a trainer's prepare_sequences
VARIABLES
    trainer,             \* which trainer script is running
    sequence_length,     \* argument of prepare_sequences
    prediction_horizon,  \* argument of prepare_sequences
    datasets,            \* the loaded data handed to prepare_sequences
    dataset_idx,         \* datasets already processed by the outer loop
    trajectory_groups,   \* the dict of the dataset being processed, in insertion order
    group_idx,           \* groups of trajectory_groups already processed
    X_list,
    y_list,
    returned,            \* the pair (X, y) prepare_sequences returned, or None
    wpc                  \* position inside prepare_sequences

windowVars == <<trainer, sequence_length, prediction_horizon, datasets, dataset_idx,
                trajectory_groups, group_idx, X_list, y_list, returned, wpc>>

\* state of a sequence of direct calls of one function or method of the collectors
VARIABLES
    fn,      \* the function or method called
    obj,     \* the simulator object the method is called on, or None
    input,   \* the trajectory or the request handed to the function, or None
    log      \* the calls made so far, each with what it was given and what it gave

callVars == <<fn, obj, input, log>>

\* state of the data collection server (src/api/data_server.py)
VARIABLES
    simulation_data,  \* the module's dict: simulation_id -> SimulationDataStore
    clock,            \* what time.time() returns
    handling,         \* per request thread: the request it is in the middle of
    responses,        \* per request thread: the last response it sent
    served            \* requests accepted by the server so far

serverVars == <<simulation_data, clock, handling, responses, served>>

\* state of one run of a master script (collect_all_data.py, train_all_simulations.py)
VARIABLES
    master,      \* which master script is running
    script_idx,  \* configured scripts the loop of main has gone through
    launched,    \* the scripts handed to subprocess.run so far, in order
    results,     \* the outcome recorded for each script gone through
    successful,
    failed,
    skipped,
    exit_code,   \* the argument of sys.exit, or -1 while the script runs
    mpc          \* position of the master script

masterVars == <<master, script_idx, launched, results, successful, failed, skipped,
                exit_code, mpc>>

vars == <<collectVars, windowVars, callVars, serverVars, masterVars>>

Systems == {"lorenz", "rossler", "double_pendulum", "malkus", "double_gyre"}

NoDataset == [written |-> FALSE]

None == <<>>

Min(a, b) == IF a < b THEN a ELSE b

Max(a, b) == IF a > b THEN a ELSE b

NumDraws(sys) ==
    CASE sys = "lorenz" -> 6
      [] sys = "rossler" -> 3
      [] sys = "double_pendulum" -> 8
      [] sys = "malkus" -> 5
      [] sys = "double_gyre" -> 5

generate_random_initial_conditions(sys, u) ==
    CASE sys = "lorenz" -> LorenzInitialConditions(u)
      [] sys = "rossler" -> RosslerInitialConditions(u)
      [] sys = "double_pendulum" -> DoublePendulumInitialConditions(u)
      [] sys = "malkus" -> MalkusInitialConditions(u)
      [] sys = "double_gyre" -> GyreInitialConditions(u)

(***************************************************************************)
(* simulate_trajectory, split at its loop: the code before the loop, one   *)
(* iteration of the loop, and the code after it.                           *)
(***************************************************************************)
LorenzSimulateBegin(c) ==
    [LorenzSimulator(c.sigma, c.rho, c.beta) EXCEPT !.state = <<c.x, c.y, c.z>>]

RosslerSimulateBegin(c) ==
    [RosslerSimulator(c.a, c.b, c.c) EXCEPT !.state = <<c.x, c.y, c.z>>]

DoublePendulumSimulateBegin(c) ==
    [DoublePendulumSimulator(c.l1, c.l2, c.m1, c.m2)
        EXCEPT !.state = <<c.theta1, c.omega1, c.theta2, c.omega2>>]

MalkusSimulateBegin(c) == MalkusReset(MalkusWheelSimulator(c.Q, c.K, c.nu), c.omega, c.theta)

GyreSimulateBegin(c) == GyreReset(DoubleGyreSimulator(c.A, c.epsilon, c.omega), c.x, c.y)

SimulateBegin(sys, c) ==
    CASE sys = "lorenz" -> LorenzSimulateBegin(c)
      [] sys = "rossler" -> RosslerSimulateBegin(c)
      [] sys = "double_pendulum" -> DoublePendulumSimulateBegin(c)
      [] sys = "malkus" -> MalkusSimulateBegin(c)
      [] sys = "double_gyre" -> GyreSimulateBegin(c)

\* one iteration: [sim |-> the simulator after it, trajectory |-> the list after it]
\* a variant of the iteration that steps but appends no point
LorenzSimulateIterationNoAppend(s, c, traj) == [sim |-> LorenzStepRK4(s), trajectory |-> traj]

LorenzSimulateIteration(s, c, traj) ==
    LET stepped == LorenzStepRK4(s)
    IN  [sim |-> stepped, trajectory |-> Append(traj, LorenzPoint(stepped, c))]

RosslerSimulateIteration(s, c, traj) ==
    LET stepped == RosslerStepRK4(s)
    IN  [sim |-> stepped, trajectory |-> Append(traj, RosslerPoint(stepped, c))]

DoublePendulumSimulateIteration(s, c, traj) ==
    LET stepped == DoublePendulumStepRK4(s)
    IN  [sim |-> stepped, trajectory |-> Append(traj, DoublePendulumPoint(stepped))]

MalkusSimulateIteration(s, c, traj) ==
    [sim |-> MalkusStepEuler(s), trajectory |-> Append(traj, MalkusPoint(s, c))]

GyreSimulateIteration(s, c, traj) ==
    [sim |-> GyreStepEuler(s), trajectory |-> Append(traj, GyrePoint(s, c))]

SimulateIteration(sys, s, c, traj) ==
    CASE sys = "lorenz" -> LorenzSimulateIteration(s, c, traj)
      [] sys = "rossler" -> RosslerSimulateIteration(s, c, traj)
      [] sys = "double_pendulum" -> DoublePendulumSimulateIteration(s, c, traj)
      [] sys = "malkus" -> MalkusSimulateIteration(s, c, traj)
      [] sys = "double_gyre" -> GyreSimulateIteration(s, c, traj)

\* the code of the double-pendulum simulate_trajectory after its loop
DoublePendulumSimulateEnd(s, res, traj) ==
    Only({Only({[initial_energy |-> res.initial_energy, final_energy |-> final_energy,
                 energy_drift |-> energy_drift,
                 lyapunov |-> calculate_lyapunov_approximation(traj),
                 label |-> classify_behavior(traj, energy_drift)]
                : energy_drift \in {IF res.initial_energy # 0
                                    THEN FAbs(FDiv(FSub(final_energy, res.initial_energy),
                                                   res.initial_energy))
                                    ELSE 0}})
          : final_energy \in {get_energy(s)}})

(***************************************************************************)
(* collect_data: the samples made from one trajectory.  timestep is the    *)
(* 0-based index of enumerate(); point timestep is traj[timestep + 1].     *)
(***************************************************************************)
\* min(timestep + 1, len(trajectory) - 1)
NextIndex(timestep, len) == Min(timestep + 1, len - 1)

LorenzSamples(tid, traj) ==
    [t \in 1..Len(traj) |->
        LET timestep == t - 1
            point == traj[timestep + 1]
            next_point == traj[NextIndex(timestep, Len(traj)) + 1]
        IN  [trajectory_id |-> tid, timestep |-> timestep,
             features |-> <<point.x, point.y, point.z, point.sigma, point.rho, point.beta, point.time>>,
             labels |-> <<next_point.x, next_point.y, next_point.z>>,
             current_state |-> <<point.x, point.y, point.z>>,
             next_state |-> <<next_point.x, next_point.y, next_point.z>>]]

RosslerSamples(tid, traj) ==
    [t \in 1..Len(traj) |->
        LET timestep == t - 1
            point == traj[timestep + 1]
            next_point == traj[NextIndex(timestep, Len(traj)) + 1]
        IN  [trajectory_id |-> tid, timestep |-> timestep,
             features |-> <<point.x, point.y, point.z, point.a, point.b, point.c, point.time>>,
             labels |-> <<next_point.x, next_point.y, next_point.z>>,
             current_state |-> <<point.x, point.y, point.z>>,
             next_state |-> <<next_point.x, next_point.y, next_point.z>>]]

GyreSamples(tid, traj) ==
    [t \in 1..Len(traj) |->
        LET timestep == t - 1
            point == traj[timestep + 1]
            next_point == traj[NextIndex(timestep, Len(traj)) + 1]
        IN  [trajectory_id |-> tid, timestep |-> timestep,
             features |-> <<point.x, point.y, point.A, point.epsilon, point.omega, point.time>>,
             labels |-> <<next_point.x, next_point.y>>,
             current_state |-> <<point.x, point.y>>,
             next_state |-> <<next_point.x, next_point.y>>]]

\* the Malkus collector makes a sample only if timestep < len(trajectory) - 1
MalkusSamples(tid, traj) ==
    [t \in 1..(Len(traj) - 1) |->
        LET timestep == t - 1
            point == traj[timestep + 1]
            next_point == traj[timestep + 1 + 1]
        IN  [trajectory_id |-> tid, timestep |-> timestep,
             features |-> <<point.omega, point.theta, point.bucket_mass_sum,
                            point.Q, point.K, point.nu, point.time>>,
             labels |-> <<next_point.omega, next_point.theta>>,
             current_state |-> <<point.omega, point.theta, point.bucket_mass_sum>>,
             next_state |-> <<next_point.omega, next_point.theta, next_point.bucket_mass_sum>>]]

DoublePendulumSamples(tid, traj, c, res) ==
    [t \in 1..Len(traj) |->
        LET timestep == t - 1
            point == traj[timestep + 1]
        IN  [trajectory_id |-> tid, timestep |-> timestep, time |-> point.time,
             features |-> <<point.theta1, point.omega1, point.theta2, point.omega2,
                            c.l1, c.l2, c.m1, c.m2, point.energy, res.lyapunov,
                            point.x1, point.y1, point.x2, point.y2>>,
             label |-> res.label,
             metadata |-> [initialConditions |-> c, energyDrift |-> res.energy_drift,
                           lyapunov |-> res.lyapunov]]]

\* a variant of the sample loop that numbers the timesteps from one
SamplesNumberedFromOne(sys, tid, traj, c, res) ==
    LET made == CASE sys = "lorenz" -> LorenzSamples(tid, traj)
                  [] sys = "rossler" -> RosslerSamples(tid, traj)
                  [] sys = "double_pendulum" -> DoublePendulumSamples(tid, traj, c, res)
                  [] sys = "malkus" -> MalkusSamples(tid, traj)
                  [] sys = "double_gyre" -> GyreSamples(tid, traj)
    IN  [n \in 1..Len(made) |-> [made[n] EXCEPT !.timestep = @ + 1]]

\* for timestep, point in enumerate(trajectory): all_samples.append({...})
Samples(sys, tid, traj, c, res) ==
    CASE sys = "lorenz" -> LorenzSamples(tid, traj)
      [] sys = "rossler" -> RosslerSamples(tid, traj)
      [] sys = "double_pendulum" -> DoublePendulumSamples(tid, traj, c, res)
      [] sys = "malkus" -> MalkusSamples(tid, traj)
      [] sys = "double_gyre" -> GyreSamples(tid, traj)

(***************************************************************************)
(* save_dataset: the document written to the data directory.               *)
(***************************************************************************)
FeatureNames(sys) ==
    CASE sys = "lorenz" -> <<"x", "y", "z", "sigma", "rho", "beta", "time">>
      [] sys = "rossler" -> <<"x", "y", "z", "a", "b", "c", "time">>
      [] sys = "double_pendulum" -> <<"theta1", "omega1", "theta2", "omega2", "l1", "l2", "m1", "m2",
                                      "energy", "lyapunov", "x1", "y1", "x2", "y2">>
      [] sys = "malkus" -> <<"omega", "theta", "bucket_mass_sum", "Q", "K", "nu", "time">>
      [] sys = "double_gyre" -> <<"x", "y", "A", "epsilon", "omega", "time">>

SimulatorName(sys) ==
    CASE sys = "lorenz" -> "lorenz-attractor"
      [] sys = "rossler" -> "rossler-attractor"
      [] sys = "double_pendulum" -> "double-pendulum"
      [] sys = "malkus" -> "malkus-waterwheel"
      [] sys = "double_gyre" -> "double-gyre"

\* max(s['trajectory_id'] for s in samples) raises ValueError on an empty list
SaveRaises(sys, samples) == sys = "double_pendulum" /\ Len(samples) = 0

\* datetime.now(): the instants the clock may show when save_dataset runs
Clocks == {"2026-01-01T00:00:00", "2026-01-02T12:30:00"}

LabelNames(sys) ==
    CASE sys = "lorenz" -> <<"next_x", "next_y", "next_z">>
      [] sys = "malkus" -> <<"next_omega", "next_theta">>
      [] sys = "double_gyre" -> <<"next_x", "next_y">>

RECURSIVE MaxTrajectoryId(_, _)
MaxTrajectoryId(samples, n) ==
    IF n = 1 THEN samples[1].trajectory_id
    ELSE Max(MaxTrajectoryId(samples, n - 1), samples[n].trajectory_id)

\* the 'metadata' entry of the document
DatasetMetadata(sys, samples, now) ==
    CASE sys = "rossler" ->
            [generated |-> now, simulator |-> SimulatorName(sys),
             totalSamples |-> Len(samples), featureNames |-> FeatureNames(sys)]
      [] sys = "double_pendulum" ->
            [generated |-> now, simulator |-> SimulatorName(sys), version |-> "1.0",
             totalSamples |-> Len(samples),
             totalTrajectories |-> MaxTrajectoryId(samples, Len(samples)) + 1,
             samplesPerTrajectory |-> 200, timestep |-> Dt,
             featureNames |-> FeatureNames(sys),
             labels |-> <<"periodic", "chaotic", "resonant">>]
      [] OTHER ->
            [generated |-> now, simulator |-> SimulatorName(sys), version |-> "1.0",
             totalSamples |-> Len(samples), featureNames |-> FeatureNames(sys),
             labelNames |-> LabelNames(sys)]

save_dataset(sys, samples, now) ==
    [written |-> TRUE,
     metadata |-> DatasetMetadata(sys, samples, now),
     samples |-> samples]

(***************************************************************************)
(* The model server: the input the predict_* handlers of model_server.py   *)
(* build from the JSON body of a request.                                  *)
(***************************************************************************)
\* data.get(key, default)
Get(data, key, default) == IF key \in DOMAIN data THEN data[key] ELSE default

\* the spacing of the float32 values around a magnitude m of the grid: 24
\* significant bits
RECURSIVE Float32Unit(_)
Float32Unit(m) == IF m < 16777216 THEN 1 ELSE 2 * Float32Unit(m \div 2)

\* dtype=np.float32
NpFloat32(a) ==
    Only({IF ~IsFinite(x) THEN x
          ELSE Only({Sign(x) * unit * (((IF x < 0 THEN 0 - x ELSE x) + (unit \div 2)) \div unit)
                     : unit \in {Float32Unit(IF x < 0 THEN 0 - x ELSE x)}})
          : x \in {a}})

Float32Array(v) == [i \in DOMAIN v |-> NpFloat32(v[i])]

\* state[:feature_dim]
Truncated(state, feature_dim) == SubSeq(state, 1, Min(feature_dim, Len(state)))

\* np.expand_dims(np.tile(state, (seq_len, 1)), axis=0): one batch of seq_len rows
Tiled(state, seq_len) == <<[k \in 1..seq_len |-> state]>>

LorenzServerState(data) ==
    <<Get(data, "x", 0), Get(data, "y", 0), Get(data, "z", 0),
      Get(data, "sigma", 10 * Scale), Get(data, "rho", 28 * Scale),
      Get(data, "beta", Quot(8 * Scale, 3)), Get(data, "time", 0)>>

RosslerServerState(data) ==
    <<Get(data, "x", 0), Get(data, "y", 0), Get(data, "z", 0),
      Get(data, "a", Quot(2 * Scale, 10)), Get(data, "b", Quot(2 * Scale, 10)),
      Get(data, "c", Quot(57 * Scale, 10)), Get(data, "time", 0)>>

GyreServerState(data) ==
    <<Get(data, "x", 0), Get(data, "y", 0), Get(data, "A", Quot(Scale, 10)),
      Get(data, "epsilon", Quot(Scale, 4)), Get(data, "omega", Quot(Scale, 2)),
      Get(data, "time", 0)>>

\* data.get(key) is a non-empty list
Listed(data, key) == key \in DOMAIN data /\ data[key] # <<>>

\* bucket_mass_sum, or the sum of the first non-empty list of masses the body
\* names, or 0
ServerBucketMassSum(data) ==
    IF "bucket_mass_sum" \in DOMAIN data THEN data.bucket_mass_sum
    ELSE IF Listed(data, "bucketMasses") THEN FSum(data.bucketMasses)
    ELSE IF Listed(data, "bucket_masses") THEN FSum(data.bucket_masses)
    ELSE IF Listed(data, "masses") THEN FSum(data.masses)
    ELSE 0

MalkusServerState(data) ==
    <<Get(data, "omega", Get(data, "angularVelocity", 0)), Get(data, "theta", 0),
      ServerBucketMassSum(data),
      Get(data, "Q", Get(data, "inflow", Quot(25 * Scale, 10))),
      Get(data, "K", Get(data, "leakRate", Quot(Scale, 10))),
      Get(data, "nu", Get(data, "damping", Scale)), Get(data, "time", 0)>>

\* np.array([[theta1, theta2, omega1, omega2, l1, l2, m1, m2]], dtype=np.float32)
DoublePendulumServerInput(data) ==
    <<Float32Array(<<Get(data, "theta1", 0), Get(data, "theta2", 0),
                     Get(data, "omega1", 0), Get(data, "omega2", 0),
                     Get(data, "l1", Scale), Get(data, "l2", Scale),
                     Get(data, "m1", Scale), Get(data, "m2", Scale)>>)>>

ServerState(f, data) ==
    CASE f = "predict_lorenz" -> LorenzServerState(data)
      [] f = "predict_rossler" -> RosslerServerState(data)
      [] f = "predict_double_gyre" -> GyreServerState(data)
      [] f = "predict_malkus_waterwheel" -> MalkusServerState(data)

\* the input_data handed to model.predict
ServerInput(f, request) ==
    IF f = "predict_double_pendulum" THEN DoublePendulumServerInput(request.data)
    ELSE Tiled(Truncated(Float32Array(ServerState(f, request.data)), request.feature_dim),
               request.seq_len)

\* a handler: 503 when its model is not loaded, else the prediction made from
\* the input it built
predict(f, request) ==
    IF ~request.loaded THEN [status |-> 503, input_data |-> None]
    ELSE [status |-> 200, input_data |-> ServerInput(f, request)]

(***************************************************************************)
(* Actions of a collector run.                                             *)
(***************************************************************************)
CollectInit ==
    /\ system \in Systems
    /\ num_trajectories \in 1..MaxTraj
    /\ samples_per_trajectory \in 0..MaxSteps
    /\ traj_id = 0
    /\ ic = None
    /\ sim = None
    /\ step = 0
    /\ trajectory = <<>>
    /\ result = None
    /\ all_samples = <<>>
    /\ dataset = NoDataset
    /\ rng \in Generators
    /\ pc = "collect"

\* a variant of the sampler whose values do not come from the generator
BeginTrajectoryUnseeded ==
    /\ pc = "collect"
    /\ traj_id < num_trajectories
    /\ \E u \in [1..NumDraws(system) -> RandomDraws] :
          LET c == generate_random_initial_conditions(system, u)
              s == SimulateBegin(system, c)
          IN  /\ ic' = c
              /\ sim' = s
              /\ result' = IF system = "double_pendulum"
                           THEN [initial_energy |-> get_energy(s)]
                           ELSE None
    /\ rng' = Advanced(rng, NumDraws(system))
    /\ step' = 0
    /\ trajectory' = <<>>
    /\ pc' = "simulate"
    /\ UNCHANGED <<system, num_trajectories, samples_per_trajectory, traj_id, all_samples, dataset>>
    /\ UNCHANGED <<windowVars, callVars, serverVars, masterVars>>

\* collect_data: the loop takes its next traj_id, draws the initial conditions
\* and enters simulate_trajectory up to the head of its loop
BeginTrajectory ==
    /\ pc = "collect"
    /\ traj_id < num_trajectories
    /\ LET u == Drawn(rng, NumDraws(system))
           c == generate_random_initial_conditions(system, u)
           s == SimulateBegin(system, c)
       IN  /\ ic' = c
           /\ sim' = s
           /\ result' = IF system = "double_pendulum"
                        THEN [initial_energy |-> get_energy(s)]
                        ELSE None
    /\ rng' = Advanced(rng, NumDraws(system))
    /\ step' = 0
    /\ trajectory' = <<>>
    /\ pc' = "simulate"
    /\ UNCHANGED <<system, num_trajectories, samples_per_trajectory, traj_id, all_samples, dataset>>
    /\ UNCHANGED <<windowVars, callVars, serverVars, masterVars>>

\* simulate_trajectory: one iteration of for _ in range(num_steps)
SimulateStep ==
    /\ pc = "simulate"
    /\ step < samples_per_trajectory
    /\ LET it == SimulateIteration(system, sim, ic, trajectory)
       IN  /\ sim' = it.sim
           /\ trajectory' = it.trajectory
    /\ step' = step + 1
    /\ UNCHANGED <<system, num_trajectories, samples_per_trajectory, traj_id, ic, result,
                   all_samples, dataset, pc>>
    /\ UNCHANGED rng
    /\ UNCHANGED <<windowVars, callVars, serverVars, masterVars>>

\* a variant of the end of a trajectory that writes the samples made so far
EndTrajectoryCheckpoint ==
    /\ pc = "simulate"
    /\ step = samples_per_trajectory
    /\ LET res == IF system = "double_pendulum"
                  THEN DoublePendulumSimulateEnd(sim, result, trajectory)
                  ELSE result
       IN  /\ result' = res
           /\ all_samples' = all_samples \o Samples(system, traj_id, trajectory, ic, res)
    /\ \E now \in Clocks : dataset' = save_dataset(system, all_samples', now)
    /\ traj_id' = traj_id + 1
    /\ pc' = "collect"
    /\ UNCHANGED <<system, num_trajectories, samples_per_trajectory, ic, sim, step, trajectory>>
    /\ UNCHANGED rng
    /\ UNCHANGED <<windowVars, callVars, serverVars, masterVars>>

\* simulate_trajectory returns; collect_data turns the trajectory into samples
EndTrajectory ==
    /\ pc = "simulate"
    /\ step = samples_per_trajectory
    /\ LET res == IF system = "double_pendulum"
                  THEN DoublePendulumSimulateEnd(sim, result, trajectory)
                  ELSE result
       IN  /\ result' = res
           /\ all_samples' = all_samples \o Samples(system, traj_id, trajectory, ic, res)
    /\ traj_id' = traj_id + 1
    /\ pc' = "collect"
    /\ UNCHANGED <<system, num_trajectories, samples_per_trajectory, ic, sim, step,
                   trajectory, dataset>>
    /\ UNCHANGED rng
    /\ UNCHANGED <<windowVars, callVars, serverVars, masterVars>>

\* collect_data returns its samples to main
CollectReturn ==
    /\ pc = "collect"
    /\ traj_id = num_trajectories
    /\ pc' = "save"
    /\ UNCHANGED <<system, num_trajectories, samples_per_trajectory, traj_id, ic, sim, step,
                   trajectory, result, all_samples, dataset>>
    /\ UNCHANGED rng
    /\ UNCHANGED <<windowVars, callVars, serverVars, masterVars>>

\* main: save_dataset(samples) writes the file, or raises and main exits with 1
SaveDataset ==
    /\ pc = "save"
    /\ IF SaveRaises(system, all_samples)
       THEN /\ pc' = "failed"
            /\ dataset' = dataset
       ELSE /\ pc' = "done"
            /\ \E now \in Clocks : dataset' = save_dataset(system, all_samples, now)
    /\ UNCHANGED <<system, num_trajectories, samples_per_trajectory, traj_id, ic, sim, step,
                   trajectory, result, all_samples>>
    /\ UNCHANGED rng
    /\ UNCHANGED <<windowVars, callVars, serverVars, masterVars>>

\* main: a KeyboardInterrupt raised inside collect_data ends the run with
\* sys.exit(0), before save_dataset is reached
Interrupt ==
    /\ pc \in {"collect", "simulate"}
    /\ pc' = "interrupted"
    /\ UNCHANGED <<system, num_trajectories, samples_per_trajectory, traj_id, ic, sim, step,
                   trajectory, result, all_samples, dataset>>
    /\ UNCHANGED rng
    /\ UNCHANGED <<windowVars, callVars, serverVars, masterVars>>

(***************************************************************************)
(* The trainer scripts: prepare_sequences of train_double_pendulum.py,     *)
(* train_malkus.py and train_three_body.py.                                *)
(***************************************************************************)

Trainers == {"double_pendulum", "malkus", "three_body"}

MaxSeqLen == 2
MaxHorizon == 2
MaxLen == 4
MaxGroups == 2
MaxFiles == 2

\* the feature vector stored for point t of trajectory k of file f
Feature(f, k, t) == <<100 * f + 10 * k + t, t, k>>

\* the samples a collector wrote for trajectory k (0-based id) with n points
StoredTrajectory(f, k, n) ==
    [t \in 1..n |-> [trajectory_id |-> k, timestep |-> t - 1, features |-> Feature(f, k, t - 1)]]

RECURSIVE Flatten(_)
Flatten(ss) == IF Len(ss) = 0 THEN <<>> ELSE Flatten(SubSeq(ss, 1, Len(ss) - 1)) \o ss[Len(ss)]

\* a dataset file in the 'samples' format: trajectories 0, 1, ... one after the other
SamplesFile(f, lens) ==
    [samples |-> Flatten([k \in 1..Len(lens) |-> StoredTrajectory(f, k - 1, lens[k])])]

\* a three-body file in the old format: one trajectory of flattened positions
PositionsFile(f, n) == [positions |-> [t \in 1..n |-> Feature(f, 0, t - 1)]]

\* a file with neither key
OtherFile == [metadata |-> "only"]

LengthLists == UNION {[1..g -> 0..MaxLen] : g \in 1..MaxGroups}

Files(tr, f) ==
    {SamplesFile(f, lens) : lens \in LengthLists}
    \cup (IF tr = "three_body" THEN {PositionsFile(f, n) : n \in 1..MaxLen} ELSE {})
    \cup (IF tr = "double_pendulum" THEN {} ELSE {OtherFile})

\* the files loaded after the first one: an empty or a full single trajectory,
\* a full trajectory in the old format, or a file with neither key
LaterFiles(tr, f) ==
    {SamplesFile(f, <<n>>) : n \in {0, MaxLen}}
    \cup (IF tr = "three_body" THEN {PositionsFile(f, MaxLen)} ELSE {})
    \cup (IF tr = "double_pendulum" THEN {} ELSE {OtherFile})

RECURSIVE FileLists(_, _)
FileLists(tr, n) ==
    IF n = 1 THEN {<<d>> : d \in Files(tr, 1)}
    ELSE {Append(fl, d) : fl \in FileLists(tr, n - 1), d \in LaterFiles(tr, n)}

\* what the trainer's main hands to prepare_sequences: a list of loaded files, or,
\* in train_double_pendulum.py, one flat sample list
Inputs(tr) ==
    IF tr = "double_pendulum"
    THEN FileLists(tr, 1)
    ELSE UNION {FileLists(tr, n) : n \in 1..MaxFiles}

\* train_double_pendulum.py load_training_data: the samples of every file that has
\* 'samples', one after the other in one flat list
load_training_data(files) ==
    [samples |-> Flatten([i \in 1..Len(files) |->
                    IF "samples" \in DOMAIN files[i] THEN files[i].samples ELSE <<>>])]

\* a file whose samples are stored last point first
StoredBackwards(d) ==
    IF "samples" \in DOMAIN d
    THEN [d EXCEPT !.samples = [j \in 1..Len(@) |-> @[Len(@) + 1 - j]]]
    ELSE d

\* the data directories a trainer can find: one to MaxFiles files, every samples
\* file in ascending order or every one stored backwards
Directories(tr) ==
    LET lists == UNION {FileLists(tr, n) : n \in 1..MaxFiles}
    IN  lists \cup {[i \in 1..Len(fl) |-> StoredBackwards(fl[i])] : fl \in lists}

\* what main hands to prepare_sequences after load_training_data has read a directory
Loaded(tr) ==
    IF tr = "double_pendulum"
    THEN {<<load_training_data(fl)>> : fl \in Directories(tr)}
    ELSE Directories(tr)

\* for sample in samples: trajectory_groups[traj_id].append(...)
RECURSIVE GroupSamples(_, _)
GroupSamples(samples, whole) ==
    IF Len(samples) = 0 THEN <<>>
    ELSE LET before == GroupSamples(SubSeq(samples, 1, Len(samples) - 1), whole)
             sample == samples[Len(samples)]
             item == IF whole THEN sample ELSE sample.features
             at == {g \in 1..Len(before) : before[g].traj_id = sample.trajectory_id}
         IN  IF at = {}
             THEN Append(before, [traj_id |-> sample.trajectory_id, items |-> <<item>>])
             ELSE [g \in 1..Len(before) |->
                     IF g \in at THEN [before[g] EXCEPT !.items = Append(@, item)] ELSE before[g]]

\* traj_samples.sort(key=lambda s: s['timestep']): a stable sort
RECURSIVE SortByTimestep(_)
SortByTimestep(ss) ==
    IF Len(ss) <= 1 THEN ss
    ELSE LET sorted == SortByTimestep(SubSeq(ss, 1, Len(ss) - 1))
             last == ss[Len(ss)]
             keep == Cardinality({j \in 1..Len(sorted) : sorted[j].timestep <= last.timestep})
         IN  SubSeq(sorted, 1, keep) \o <<last>> \o SubSeq(sorted, keep + 1, Len(sorted))

\* mutant: the loop also visits the clamped start of a trajectory that is too short
RangeAtLeastOne(n) == [j \in 1..(IF n > 1 THEN n ELSE 1) |-> j - 1]

\* range(n): the start indices 0 .. n-1, none when n <= 0
Range(n) == [j \in 1..n |-> j - 1]

\* mutants: the loop bound off by one, either way
WindowCountPlusOne(num_timesteps, s, h) == num_timesteps - s - h + 1

WindowCountMinusOne(num_timesteps, s, h) == num_timesteps - s - h - 1

\* the number of windows the inner loop makes from num_timesteps points
WindowCount(num_timesteps, s, h) == num_timesteps - s - h

\* mutant: the slice starts one point late
SliceFromNext(arr, a, b) == SubSeq(arr, a + 2, Min(b + 1, Len(arr)))

\* features_array[a:b]
Slice(arr, a, b) == SubSeq(arr, a + 1, Min(b, Len(arr)))

\* y_seq[:, :2]
FirstTwo(y_seq) == [j \in 1..Len(y_seq) |-> SubSeq(y_seq[j], 1, Min(2, Len(y_seq[j])))]

\* the target made from y_seq: train_malkus.py keeps omega and theta only
Target(tr, y_seq) == IF tr = "malkus" THEN FirstTwo(y_seq) ELSE y_seq

\* the inner loop over one features_array: the (X_seq, y) pairs it appends
Windows(tr, features_array, s, h) ==
    LET num_timesteps == Len(features_array)
        starts == Range(WindowCount(num_timesteps, s, h))
    IN  [j \in 1..Len(starts) |->
            LET i == starts[j]
            IN  [X_seq |-> Slice(features_array, i, i + s),
                 y_seq |-> Target(tr, Slice(features_array, i + s, i + s + h))]]

\* the features_array of one group
FeaturesArray(tr, items) ==
    IF tr = "double_pendulum"
    THEN LET sorted == SortByTimestep(items) IN [j \in 1..Len(sorted) |-> sorted[j].features]
    ELSE items

(***************************************************************************)
(* Actions of prepare_sequences.                                           *)
(***************************************************************************)
WindowInit ==
    /\ trainer \in Trainers
    /\ sequence_length \in 1..MaxSeqLen
    /\ prediction_horizon \in 1..MaxHorizon
    /\ datasets \in Inputs(trainer)
    /\ dataset_idx = 0
    /\ trajectory_groups = <<>>
    /\ group_idx = 0
    /\ X_list = <<>>
    /\ y_list = <<>>
    /\ returned = None
    /\ wpc = "dataset"

\* main of a trainer: load_training_data, then prepare_sequences on what it loaded
TrainInit ==
    /\ trainer \in Trainers
    /\ sequence_length \in 1..MaxSeqLen
    /\ prediction_horizon \in 1..MaxHorizon
    /\ datasets \in Loaded(trainer)
    /\ dataset_idx = 0
    /\ trajectory_groups = <<>>
    /\ group_idx = 0
    /\ X_list = <<>>
    /\ y_list = <<>>
    /\ returned = None
    /\ wpc = "dataset"

\* the next dataset has 'samples': group them by trajectory_id
GroupDataset ==
    /\ wpc = "dataset"
    /\ dataset_idx < Len(datasets)
    /\ "samples" \in DOMAIN datasets[dataset_idx + 1]
    /\ trajectory_groups' = GroupSamples(datasets[dataset_idx + 1].samples, trainer = "double_pendulum")
    /\ group_idx' = 0
    /\ dataset_idx' = dataset_idx + 1
    /\ wpc' = "groups"
    /\ UNCHANGED <<trainer, sequence_length, prediction_horizon, datasets, X_list, y_list, returned>>
    /\ UNCHANGED <<collectVars, callVars, serverVars, masterVars>>

\* train_three_body.py, old format: the file's 'positions' are one trajectory
WindowPositions ==
    /\ wpc = "dataset"
    /\ dataset_idx < Len(datasets)
    /\ trainer = "three_body"
    /\ "samples" \notin DOMAIN datasets[dataset_idx + 1]
    /\ "positions" \in DOMAIN datasets[dataset_idx + 1]
    /\ LET ws == Windows(trainer, datasets[dataset_idx + 1].positions,
                         sequence_length, prediction_horizon)
       IN  /\ X_list' = X_list \o [j \in 1..Len(ws) |-> ws[j].X_seq]
           /\ y_list' = y_list \o [j \in 1..Len(ws) |-> ws[j].y_seq]
    /\ dataset_idx' = dataset_idx + 1
    /\ UNCHANGED <<trainer, sequence_length, prediction_horizon, datasets, trajectory_groups,
                   group_idx, returned, wpc>>
    /\ UNCHANGED <<collectVars, callVars, serverVars, masterVars>>

\* a dataset with no usable key is passed over (train_malkus.py prints a warning)
SkipDataset ==
    /\ wpc = "dataset"
    /\ dataset_idx < Len(datasets)
    /\ "samples" \notin DOMAIN datasets[dataset_idx + 1]
    /\ ~(trainer = "three_body" /\ "positions" \in DOMAIN datasets[dataset_idx + 1])
    /\ dataset_idx' = dataset_idx + 1
    /\ UNCHANGED <<trainer, sequence_length, prediction_horizon, datasets, trajectory_groups,
                   group_idx, X_list, y_list, returned, wpc>>
    /\ UNCHANGED <<collectVars, callVars, serverVars, masterVars>>

\* one iteration of for traj_id, ... in trajectory_groups.items()
WindowGroup ==
    /\ wpc = "groups"
    /\ group_idx < Len(trajectory_groups)
    /\ LET features_array == FeaturesArray(trainer, trajectory_groups[group_idx + 1].items)
           ws == Windows(trainer, features_array, sequence_length, prediction_horizon)
       IN  /\ X_list' = X_list \o [j \in 1..Len(ws) |-> ws[j].X_seq]
           /\ y_list' = y_list \o [j \in 1..Len(ws) |-> ws[j].y_seq]
    /\ group_idx' = group_idx + 1
    /\ UNCHANGED <<trainer, sequence_length, prediction_horizon, datasets, dataset_idx,
                   trajectory_groups, returned, wpc>>
    /\ UNCHANGED <<collectVars, callVars, serverVars, masterVars>>

\* the groups of this dataset are exhausted: back to the loop over datasets
GroupsDone ==
    /\ wpc = "groups"
    /\ group_idx = Len(trajectory_groups)
    /\ wpc' = "dataset"
    /\ UNCHANGED <<trainer, sequence_length, prediction_horizon, datasets, dataset_idx,
                   trajectory_groups, group_idx, X_list, y_list, returned>>
    /\ UNCHANGED <<collectVars, callVars, serverVars, masterVars>>

\* X = np.array(X_list); y = np.array(y_list); return X, y
WindowReturn ==
    /\ wpc = "dataset"
    /\ dataset_idx = Len(datasets)
    /\ returned' = [X |-> X_list, y |-> y_list]
    /\ wpc' = "returned"
    /\ UNCHANGED <<trainer, sequence_length, prediction_horizon, datasets, dataset_idx,
                   trajectory_groups, group_idx, X_list, y_list>>
    /\ UNCHANGED <<collectVars, callVars, serverVars, masterVars>>

(***************************************************************************)
(* Direct calls of the simulators' methods and of the diagnostics, on      *)
(* objects and trajectories a caller may build.                            *)
(***************************************************************************)
MaxCalls == 2

\* double pendulums as DoublePendulumSimulator(l1, l2, m1, m2) builds them, with
\* sim.state assigned as simulate_trajectory does
PendulumObjects ==
    {[DoublePendulumSimulator(Scale, l2, m1, Scale) EXCEPT !.state = <<t1, w1, t2, w2>>] :
        l2 \in {Quot(Scale, 2), Scale}, m1 \in {0, Scale},
        t1 \in {0, Quot(3 * Scale, 10), Scale}, t2 \in {0, Quot(3 * Scale, 10), Scale},
        w1 \in {0, Scale}, w2 \in {0, Scale}}

\* double gyres as DoubleGyreSimulator(A, epsilon, omega) builds them, after
\* reset(x, y) and with the clock at some time: the default amplitude A = 0.1,
\* and amplitudes a hundred and two thousand times larger
GyreObjects ==
    {[DoubleGyreSimulator(A, Quot(Scale, 4), Quot(Scale, 2))
        EXCEPT !.state = <<x, y>>, !.time = t] :
        A \in {Quot(Scale, 10), 10 * Scale, 200 * Scale},
        x \in {0, Quot(Scale, 2), Scale, Quot(3 * Scale, 2), 2 * Scale},
        y \in {0, Quot(Scale, 2), Scale},
        t \in {0, FScale(1, 1, Pi)}}

\* waterwheels as MalkusWheelSimulator(Q=Q, K=K) builds them, with omega, theta
\* and the bucket masses assigned: every bucket empty, every bucket holding 1.0,
\* or every other bucket holding 1.0
MalkusObjects ==
    {[MalkusWheelSimulator(Q, K, Scale)
        EXCEPT !.theta = th,
               !.bucket_masses = [j \in 1..num_buckets |-> IF j % every = 0 THEN m ELSE 0]] :
        Q \in {Quot(25 * Scale, 10), 0 - Quot(25 * Scale, 10)},
        K \in {Quot(Scale, 10), 200 * Scale},
        th \in {0, Scale, 3 * Scale},
        m \in {0, Scale}, every \in {1, 2}}

\* Lorenz and Roessler simulators with their default and with sampled
\* parameters, at a state on and a state off the z = 0 plane
LorenzObjects ==
    {[LorenzSimulator(sigma, 28 * Scale, Quot(8 * Scale, 3)) EXCEPT !.state = <<x, y, z>>] :
        sigma \in {10 * Scale, 9 * Scale},
        x \in {Quot(Scale, 10), 0 - 5 * Scale}, y \in {0, 3 * Scale}, z \in {0, 20 * Scale}}

RosslerObjects ==
    {[RosslerSimulator(Quot(Scale, 5), Quot(Scale, 5), c) EXCEPT !.state = <<x, y, z>>] :
        c \in {Quot(57 * Scale, 10), 6 * Scale},
        x \in {Quot(Scale, 10), 0 - Scale}, y \in {0, Scale}, z \in {0, Quot(Scale, 2)}}

StepRK4Functions == {"lorenz_step_rk4", "rossler_step_rk4", "double_pendulum_step_rk4"}

SystemOfStep(f) ==
    CASE f = "lorenz_step_rk4" -> "lorenz"
      [] f = "rossler_step_rk4" -> "rossler"
      [] f = "double_pendulum_step_rk4" -> "double_pendulum"

Objects(f) ==
    CASE f = "derivatives" -> PendulumObjects
      [] f = "lorenz_step_rk4" -> LorenzObjects
      [] f = "rossler_step_rk4" -> RosslerObjects
      [] f = "double_pendulum_step_rk4" -> PendulumObjects
      [] f = "malkus_step_euler" -> MalkusObjects
      [] f = "malkus_rk4_step" -> MalkusObjects
      [] f = "gyre_step_euler" -> GyreObjects
      [] OTHER -> {None}

\* the longest trajectory handed to a diagnostic
MaxPoints == 21

\* pendulum trajectories of n points: theta1 and theta2 move by s1, s2 at every
\* other point, omega1 jumps from 0 to w at the middle, omega2 stays 0
PendulumTrajectory(n, s1, s2, w) ==
    [i \in 1..n |-> [theta1 |-> s1 * ((i - 1) \div 2), theta2 |-> s2 * ((i - 1) \div 2),
                     omega1 |-> IF i - 1 < n \div 2 THEN 0 ELSE w, omega2 |-> 0]]

ClassifierInputs ==
    {PendulumTrajectory(n, s1, s2, w) :
        n \in {9, 10, MaxPoints},
        s1 \in {0, Quot(8 * Scale, 10), Quot(12 * Scale, 10)},
        s2 \in {0, Quot(8 * Scale, 10), Quot(12 * Scale, 10)},
        w \in {0, 3 * Scale, 4 * Scale, 5 * Scale, 6 * Scale}}

\* values of the energy_drift argument
EnergyDrifts == {0, Quot(Scale, 2)}

\* pendulum trajectories of n points at rest up to point number rest, then
\* moving by s1 and s2 a point
RestingTrajectory(n, rest, s1, s2) ==
    [i \in 1..n |-> [theta1 |-> IF i <= rest THEN 0 ELSE s1 * (i - rest),
                     theta2 |-> IF i <= rest THEN 0 ELSE s2 * (i - rest),
                     omega1 |-> 0, omega2 |-> 0]]

LyapunovInputs ==
    {RestingTrajectory(n, rest, s1, s2) :
        n \in {10, 11, 19, 20, MaxPoints},
        rest \in {0, 12, MaxPoints},
        s1 \in {Quot(Scale, 10), Scale},
        s2 \in {0, Quot(Scale, 2)}}

\* the longest sequence a served model takes
MaxTile == 2

PredictFunctions == {"predict_lorenz", "predict_rossler", "predict_double_gyre",
                     "predict_malkus_waterwheel", "predict_double_pendulum"}

\* JSON bodies of a predict request: the state and parameters of one system,
\* a body with the browser's names of the waterwheel, and an empty body
RequestBodies(f) ==
    CASE f = "predict_lorenz" ->
            {[x |-> x, y |-> 2 * Scale, z |-> 3 * Scale, sigma |-> 9 * Scale,
              rho |-> 30 * Scale, beta |-> Quot(5 * Scale, 2), time |-> t]
             : x \in {Scale, 0 - 4 * Scale}, t \in {0, Quot(Scale, 2)}}
      [] f = "predict_rossler" ->
            {[x |-> x, y |-> 2 * Scale, z |-> 3 * Scale, a |-> Quot(Scale, 4),
              b |-> Quot(3 * Scale, 10), c |-> 6 * Scale, time |-> t]
             : x \in {Scale, 0 - 4 * Scale}, t \in {0, Quot(Scale, 2)}}
      [] f = "predict_double_gyre" ->
            {[x |-> x, y |-> Quot(Scale, 4), A |-> Quot(Scale, 8), epsilon |-> Quot(Scale, 5),
              omega |-> Quot(6 * Scale, 10), time |-> t]
             : x \in {Scale, Quot(3 * Scale, 2)}, t \in {0, Quot(Scale, 2)}}
      [] f = "predict_malkus_waterwheel" ->
            {[omega |-> w, theta |-> 2 * Scale, bucket_mass_sum |-> 3 * Scale, Q |-> 2 * Scale,
              K |-> Quot(Scale, 5), nu |-> Quot(3 * Scale, 2), time |-> t]
             : w \in {Quot(Scale, 10), 0 - Scale}, t \in {0, Quot(Scale, 2)}}
            \cup {[angularVelocity |-> Scale, theta |-> 2 * Scale,
                   bucketMasses |-> <<Scale, Quot(Scale, 2)>>, inflow |-> 2 * Scale]}
      [] f = "predict_double_pendulum" ->
            {[theta1 |-> th, omega1 |-> 2 * Scale, theta2 |-> 3 * Scale, omega2 |-> w,
              l1 |-> Quot(9 * Scale, 10), l2 |-> Quot(11 * Scale, 10),
              m1 |-> Quot(Scale, 2), m2 |-> Quot(3 * Scale, 2)]
             : th \in {Scale, 0 - Scale}, w \in {0, 4 * Scale}}

\* the length of the state vector a handler builds
ServerStateLen(f) ==
    CASE f = "predict_double_gyre" -> 6
      [] f = "predict_double_pendulum" -> 8
      [] OTHER -> 7

Requests(f) ==
    {[data |-> data, loaded |-> loaded, seq_len |-> seq_len, feature_dim |-> feature_dim]
     : data \in RequestBodies(f) \cup {[none \in {} |-> 0]},
       loaded \in BOOLEAN,
       seq_len \in 1..MaxTile,
       feature_dim \in {ServerStateLen(f) - 1, ServerStateLen(f)}}

TrajectoryInputs(f) ==
    CASE f = "classify_behavior" -> ClassifierInputs
      [] f = "calculate_lyapunov_approximation" -> LyapunovInputs
      [] f \in PredictFunctions -> Requests(f)
      [] OTHER -> {None}

Functions == {"derivatives", "gyre_step_euler", "malkus_step_euler", "malkus_rk4_step",
              "classify_behavior", "calculate_lyapunov_approximation"}
             \cup PredictFunctions \cup StepRK4Functions

CallInit ==
    /\ fn \in Functions
    /\ obj \in Objects(fn)
    /\ input \in TrajectoryInputs(fn)
    /\ log = <<>>

\* sim.derivatives(sim.state): numpy divides by den1 and den2 whatever they are
CallDerivatives ==
    /\ fn = "derivatives"
    /\ Len(log) < MaxCalls
    /\ log' = Append(log, [given |-> obj,
                           gave |-> DoublePendulumDerivatives(obj, obj.state),
                           raised |-> FALSE])
    /\ UNCHANGED <<fn, obj, input>>
    /\ UNCHANGED <<collectVars, windowVars, serverVars, masterVars>>

\* sim.step_euler() of the double gyre, on the object the earlier calls left
CallGyreStepEuler ==
    /\ fn = "gyre_step_euler"
    /\ Len(log) < MaxCalls
    /\ obj' = GyreStepEuler(obj)
    /\ log' = Append(log, [given |-> obj, gave |-> None, raised |-> FALSE,
                           stores |-> GyreStepEulerStores(obj)])
    /\ UNCHANGED <<fn, input>>
    /\ UNCHANGED <<collectVars, windowVars, serverVars, masterVars>>

\* sim.step_euler() of the waterwheel, on the object the earlier calls left
CallMalkusStepEuler ==
    /\ fn = "malkus_step_euler"
    /\ Len(log) < MaxCalls
    /\ obj' = MalkusStepEuler(obj)
    /\ log' = Append(log, [given |-> obj, gave |-> None, raised |-> FALSE,
                           stores |-> MalkusStepEulerStores(obj)])
    /\ UNCHANGED <<fn, input>>
    /\ UNCHANGED <<collectVars, windowVars, serverVars, masterVars>>

\* sim.rk4_step() of the waterwheel, on the object the earlier calls left
CallMalkusRK4Step ==
    /\ fn = "malkus_rk4_step"
    /\ Len(log) < MaxCalls
    /\ obj' = MalkusRK4Step(obj)
    /\ log' = Append(log, [given |-> obj, gave |-> None, raised |-> FALSE,
                           stores |-> MalkusRK4Stores(obj),
                           evaluated |-> MalkusRK4Evaluated(obj)])
    /\ UNCHANGED <<fn, input>>
    /\ UNCHANGED <<collectVars, windowVars, serverVars, masterVars>>

\* sim.step_rk4() of a Lorenz, Roessler or double-pendulum simulator, on the
\* object the earlier calls left
CallStepRK4 ==
    /\ fn \in StepRK4Functions
    /\ Len(log) < MaxCalls
    /\ obj' = step_rk4(SystemOfStep(fn), obj)
    /\ log' = Append(log, [given |-> obj, gave |-> None, raised |-> FALSE,
                           stores |-> step_rk4Stores(SystemOfStep(fn), obj),
                           evaluated |-> step_rk4Evaluated(SystemOfStep(fn), obj)])
    /\ UNCHANGED <<fn, input>>
    /\ UNCHANGED <<collectVars, windowVars, serverVars, masterVars>>

\* classify_behavior(trajectory, energy_drift), called again and again on the
\* same trajectory
CallClassifyBehavior ==
    /\ fn = "classify_behavior"
    /\ Len(log) < MaxCalls
    /\ \E e \in EnergyDrifts :
          log' = Append(log, [given |-> [trajectory |-> input, energy_drift |-> e],
                              gave |-> classify_behavior(input, e),
                              raised |-> FALSE])
    /\ UNCHANGED <<fn, obj, input>>
    /\ UNCHANGED <<collectVars, windowVars, serverVars, masterVars>>

\* calculate_lyapunov_approximation(trajectory)
CallLyapunov ==
    /\ fn = "calculate_lyapunov_approximation"
    /\ Len(log) < MaxCalls
    /\ log' = Append(log, [given |-> [trajectory |-> input],
                           gave |-> calculate_lyapunov_approximation(input),
                           raised |-> FALSE])
    /\ UNCHANGED <<fn, obj, input>>
    /\ UNCHANGED <<collectVars, windowVars, serverVars, masterVars>>

\* a POST to one of the predict routes of the model server
CallPredict ==
    /\ fn \in PredictFunctions
    /\ Len(log) < MaxCalls
    /\ log' = Append(log, [given |-> [request |-> input],
                           gave |-> predict(fn, input),
                           raised |-> FALSE])
    /\ UNCHANGED <<fn, obj, input>>
    /\ UNCHANGED <<collectVars, windowVars, serverVars, masterVars>>

(***************************************************************************)
(* The data collection server: src/api/data_server.py.  Flask serves each  *)
(* request on a thread of its own (threaded=True).  Everything a handler   *)
(* does inside `with data_lock:` is one step; time is counted in seconds.  *)
(***************************************************************************)
MAX_AGE_SECONDS == 10

\* the deque's maxlen, 1000 in the source, scaled down with the runs
MAX_DATA_POINTS == 2

MaxThreads == 2
MaxRequests == 3
MaxClock == 12

Threads == 1..MaxThreads

SimulationIds == {"lorenz-1", "rossler-2"}

\* the clock moves on by five or by six seconds between two readings
TickSeconds == {5, 6}

\* the JSON bodies posted to /api/data/submit: none, one without data, one
\* without simulation_id, and complete ones with or without a name
NoPayload == [empty |-> TRUE]

Payloads ==
    {NoPayload, [simulation_id |-> "lorenz-1"], [data |-> "state"]}
    \cup {[simulation_id |-> id, data |-> "state"] : id \in SimulationIds}
    \cup {[simulation_id |-> id, simulation_name |-> "Lorenz", data |-> "state"] :
            id \in SimulationIds}

\* the query strings of /api/data/get/<simulation_id>
QueryArgs ==
    {[asked |-> "get"], [asked |-> "get", format |-> "summary"],
     [asked |-> "get", format |-> "full", seconds |-> 5], [asked |-> "get", seconds |-> 5]}

\* the empty dict
EmptyDict == [k \in {} |-> k]

NoResponse == [handler |-> "none"]

Idle == [handler |-> "idle"]

\* SimulationDataStore.__init__
SimulationDataStore(simulation_id, now) ==
    [simulation_id |-> simulation_id, data_points |-> <<>>, last_update |-> now,
     metadata |-> [name |-> "Unknown", created |-> now]]

\* deque(maxlen=MAX_DATA_POINTS).append: a full deque drops its first item
DequeAppend(q, x) ==
    IF Len(q) >= MAX_DATA_POINTS
    THEN Append(SubSeq(q, Len(q) - MAX_DATA_POINTS + 2, Len(q)), x)
    ELSE Append(q, x)

\* while self.data_points and self.data_points[0]['timestamp'] < cutoff_time: popleft()
RECURSIVE PopOld(_, _)
PopOld(q, cutoff_time) ==
    IF Len(q) > 0 /\ q[1].timestamp < cutoff_time
    THEN PopOld(SubSeq(q, 2, Len(q)), cutoff_time)
    ELSE q

\* SimulationDataStore.clean_old_data
clean_old_data(store, current_time) ==
    [store EXCEPT !.data_points = PopOld(@, current_time - MAX_AGE_SECONDS)]

\* SimulationDataStore.add_data_point, with timestamp = time.time()
add_data_point(store, data, timestamp) ==
    LET cleaned == clean_old_data(store, timestamp)
    IN  [cleaned EXCEPT !.data_points = DequeAppend(@, [timestamp |-> timestamp, data |-> data]),
                        !.last_update = timestamp]

\* SimulationDataStore.get_recent_data: the store after it and the list it returns
get_recent_data(store, args, current_time) ==
    LET cleaned == clean_old_data(store, current_time)
    IN  [store |-> cleaned,
         gave |-> IF "seconds" \in DOMAIN args
                  THEN SelectSeq(cleaned.data_points,
                                 LAMBDA dp : dp.timestamp >= current_time - args.seconds)
                  ELSE cleaned.data_points]

\* SimulationDataStore.get_latest: the list holding the newest point, empty for None
get_latest(store) ==
    IF Len(store.data_points) = 0 THEN <<>>
    ELSE <<store.data_points[Len(store.data_points)]>>

\* SimulationDataStore.get_summary
get_summary(store) ==
    IF Len(store.data_points) = 0
    THEN [available |-> FALSE, message |-> "No data available"]
    ELSE LET data_list == store.data_points
         IN  [available |-> TRUE, simulation_id |-> store.simulation_id,
              data_points |-> Len(data_list),
              time_span |-> data_list[Len(data_list)].timestamp - data_list[1].timestamp,
              last_update |-> store.last_update,
              latest_state |-> data_list[Len(data_list)].data,
              metadata |-> store.metadata]

\* the dict with key id set, and with key id deleted
WithStore(dict, id, store) ==
    [k \in DOMAIN dict \cup {id} |-> IF k = id THEN store ELSE dict[k]]

WithoutStore(dict, id) == [k \in DOMAIN dict \ {id} |-> dict[k]]

\* thread th sends a response and is free for the next request
Respond(th, handler, status, body) ==
    /\ responses' = [responses EXCEPT ![th] =
                        [handler |-> handler, status |-> status, body |-> body, at |-> clock]]
    /\ handling' = [handling EXCEPT ![th] = Idle]

Accept(th) ==
    /\ handling[th] = Idle
    /\ served < MaxRequests
    /\ served' = served + 1

(***************************************************************************)
(* Actions of the data collection server.                                  *)
(***************************************************************************)
ServerInit ==
    /\ simulation_data = EmptyDict
    /\ clock = 0
    /\ handling = [th \in Threads |-> Idle]
    /\ responses = [th \in Threads |-> NoResponse]
    /\ served = 0

\* time passes
Tick ==
    /\ \E d \in TickSeconds :
          /\ clock + d <= MaxClock
          /\ clock' = clock + d
    /\ UNCHANGED <<simulation_data, handling, responses, served>>
    /\ UNCHANGED <<collectVars, windowVars, callVars, masterVars>>

\* health_check
HealthCheck(th) ==
    /\ Accept(th)
    /\ Respond(th, "health_check", 200,
               [status |-> "healthy", simulations_active |-> Cardinality(DOMAIN simulation_data)])
    /\ UNCHANGED <<simulation_data, clock>>
    /\ UNCHANGED <<collectVars, windowVars, callVars, masterVars>>

\* submit_data up to the end of its `with data_lock:` block
SubmitData(th) ==
    /\ Accept(th)
    /\ \E payload \in Payloads :
          IF payload = NoPayload
          THEN /\ Respond(th, "submit_data", 400, [error |-> "No data provided"])
               /\ UNCHANGED simulation_data
          ELSE IF "simulation_id" \notin DOMAIN payload \/ "data" \notin DOMAIN payload
          THEN /\ Respond(th, "submit_data", 400, [error |-> "Missing simulation_id or data"])
               /\ UNCHANGED simulation_data
          ELSE LET simulation_id == payload.simulation_id
                   simulation_name == IF "simulation_name" \in DOMAIN payload
                                      THEN payload.simulation_name ELSE "Unknown"
                   store == IF simulation_id \in DOMAIN simulation_data
                            THEN simulation_data[simulation_id]
                            ELSE [SimulationDataStore(simulation_id, clock)
                                     EXCEPT !.metadata = [name |-> simulation_name,
                                                          created |-> clock]]
               IN  /\ simulation_data' =
                          WithStore(simulation_data, simulation_id,
                                    add_data_point(store, payload.data, clock))
                   /\ handling' = [handling EXCEPT ![th] =
                                      [handler |-> "submit_data", simulation_id |-> simulation_id]]
                   /\ UNCHANGED responses
    /\ UNCHANGED clock
    /\ UNCHANGED <<collectVars, windowVars, callVars, masterVars>>

\* submit_data after the lock is released: the response is built from
\* simulation_data[simulation_id], a KeyError is caught and answered with 500
SubmitRespond(th) ==
    /\ handling[th].handler = "submit_data"
    /\ LET simulation_id == handling[th].simulation_id
       IN  IF simulation_id \in DOMAIN simulation_data
           THEN Respond(th, "submit_data", 200,
                        [status |-> "success", simulation_id |-> simulation_id,
                         data_points_stored |-> Len(simulation_data[simulation_id].data_points)])
           ELSE Respond(th, "submit_data", 500, [error |-> "KeyError"])
    /\ UNCHANGED <<simulation_data, clock, served>>
    /\ UNCHANGED <<collectVars, windowVars, callVars, masterVars>>

\* get_data
GetData(th) ==
    /\ Accept(th)
    /\ \E simulation_id \in SimulationIds, args \in QueryArgs :
          IF simulation_id \notin DOMAIN simulation_data
          THEN /\ Respond(th, "get_data", 404,
                          [error |-> "Simulation not found", simulation_id |-> simulation_id,
                           available_simulations |-> DOMAIN simulation_data])
               /\ UNCHANGED simulation_data
          ELSE LET store == simulation_data[simulation_id]
                   format_type == IF "format" \in DOMAIN args THEN args.format ELSE "full"
                   recent == get_recent_data(store, args, clock)
                   data_points == recent.gave
               IN  IF format_type = "summary"
                   THEN /\ Respond(th, "get_summary", 200, get_summary(store))
                        /\ UNCHANGED simulation_data
                   ELSE /\ Respond(th, "get_data", 200,
                               [simulation_id |-> simulation_id,
                                simulation_name |-> store.metadata.name,
                                data_points |-> Len(data_points),
                                time_span |-> IF Len(data_points) > 0
                                              THEN data_points[Len(data_points)].timestamp
                                                   - data_points[1].timestamp
                                              ELSE 0,
                                data |-> [j \in 1..Len(data_points) |-> data_points[j].data],
                                timestamps |-> [j \in 1..Len(data_points) |->
                                                   data_points[j].timestamp]])
                        /\ simulation_data' = WithStore(simulation_data, simulation_id, recent.store)
    /\ UNCHANGED clock
    /\ UNCHANGED <<collectVars, windowVars, callVars, masterVars>>

\* get_latest
GetLatest(th) ==
    /\ Accept(th)
    /\ \E simulation_id \in SimulationIds :
          IF simulation_id \notin DOMAIN simulation_data
          THEN Respond(th, "get_latest", 404, [error |-> "Simulation not found"])
          ELSE LET store == simulation_data[simulation_id]
                   latest == get_latest(store)
               IN  IF Len(latest) = 0
                   THEN Respond(th, "get_latest", 404, [error |-> "No data available"])
                   ELSE Respond(th, "get_latest", 200,
                                [simulation_id |-> simulation_id,
                                 simulation_name |-> store.metadata.name,
                                 timestamp |-> latest[1].timestamp,
                                 age_seconds |-> clock - latest[1].timestamp,
                                 data |-> latest[1].data])
    /\ UNCHANGED <<simulation_data, clock>>
    /\ UNCHANGED <<collectVars, windowVars, callVars, masterVars>>

\* list_simulations
ListSimulations(th) ==
    /\ Accept(th)
    /\ Respond(th, "list_simulations", 200,
               [simulations |->
                    {[simulation_id |-> id,
                      simulation_name |-> simulation_data[id].metadata.name,
                      data_points |-> Len(simulation_data[id].data_points),
                      last_update |-> simulation_data[id].last_update,
                      age_seconds |-> clock - simulation_data[id].last_update,
                      active |-> clock - simulation_data[id].last_update < 5] :
                        id \in DOMAIN simulation_data},
                count |-> Cardinality(DOMAIN simulation_data)])
    /\ UNCHANGED <<simulation_data, clock>>
    /\ UNCHANGED <<collectVars, windowVars, callVars, masterVars>>

\* clear_data
ClearData(th) ==
    /\ Accept(th)
    /\ \E simulation_id \in SimulationIds :
          IF simulation_id \in DOMAIN simulation_data
          THEN /\ simulation_data' = WithoutStore(simulation_data, simulation_id)
               /\ Respond(th, "clear_data", 200, [status |-> "success", message |-> "Data cleared"])
          ELSE /\ Respond(th, "clear_data", 404, [error |-> "Simulation not found"])
               /\ UNCHANGED simulation_data
    /\ UNCHANGED clock
    /\ UNCHANGED <<collectVars, windowVars, callVars, masterVars>>

\* clear_all_data
ClearAllData(th) ==
    /\ Accept(th)
    /\ simulation_data' = EmptyDict
    /\ Respond(th, "clear_all_data", 200,
               [status |-> "success", cleared |-> Cardinality(DOMAIN simulation_data)])
    /\ UNCHANGED clock
    /\ UNCHANGED <<collectVars, windowVars, callVars, masterVars>>

(***************************************************************************)
(* The master scripts: collect_all_data.py and train_all_simulations.py.   *)
(***************************************************************************)
Masters == {"collect_all_data", "train_all_simulations"}

COLLECTION_SCRIPTS == <<"collect_lorenz_data.py", "collect_rossler_data.py">>

\* the values of the TRAINING_SCRIPTS dict, in insertion order
TRAINING_SCRIPTS ==
    <<"train_double_pendulum.py", "train_three_body.py", "train_lorenz.py",
      "train_rossler.py", "train_double_gyre.py", "train_lid_cavity.py",
      "train_turbulent_jet.py", "train_malkus_waterwheel.py", "train_hopalong.py">>

Scripts(m) == IF m = "collect_all_data" THEN COLLECTION_SCRIPTS ELSE TRAINING_SCRIPTS

\* what can happen to one configured script: its file is missing; it is there
\* when main looks and gone when run_training_script looks; subprocess.run
\* returns; raises CalledProcessError; raises another Exception
Outcomes(m) ==
    IF m = "collect_all_data"
    THEN {"missing", "zero", "nonzero", "exception"}
    ELSE {"missing", "vanished", "zero", "nonzero", "exception"}

\* run_collection_script, run_training_script: is subprocess.run reached, and
\* the value returned
Reached(outcome) == outcome \in {"zero", "nonzero", "exception"}

RunScriptReturns(outcome) == outcome = "zero"

\* the status main records for a script
Recorded(m, outcome) ==
    IF m = "train_all_simulations" /\ outcome = "missing" THEN "skipped"
    ELSE IF RunScriptReturns(outcome) THEN "success"
    ELSE "failed"

Count(status, recorded) == IF recorded = status THEN 1 ELSE 0

(***************************************************************************)
(* Actions of a master script.                                             *)
(***************************************************************************)
MasterInit ==
    /\ master \in Masters
    /\ script_idx = 0
    /\ launched = <<>>
    /\ results = <<>>
    /\ successful = 0
    /\ failed = 0
    /\ skipped = 0
    /\ exit_code = -1
    /\ mpc = "loop"

\* one iteration of the loop of main over the configured scripts
RunScript ==
    /\ mpc = "loop"
    /\ script_idx < Len(Scripts(master))
    /\ \E outcome \in Outcomes(master) :
          LET script_name == Scripts(master)[script_idx + 1]
              recorded == Recorded(master, outcome)
          IN  /\ launched' = IF Reached(outcome) THEN Append(launched, script_name) ELSE launched
              /\ results' = Append(results, recorded)
              /\ successful' = successful + Count("success", recorded)
              /\ failed' = failed + Count("failed", recorded)
              /\ skipped' = skipped + Count("skipped", recorded)
    /\ script_idx' = script_idx + 1
    /\ UNCHANGED <<master, exit_code, mpc>>
    /\ UNCHANGED <<collectVars, windowVars, callVars, serverVars>>

\* a variant of the exit that reports success as soon as one script succeeded
MasterExitOnAnySuccess ==
    /\ mpc = "loop"
    /\ script_idx = Len(Scripts(master))
    /\ exit_code' = IF successful > 0 THEN 0 ELSE 1
    /\ mpc' = "exited"
    /\ UNCHANGED <<master, script_idx, launched, results, successful, failed, skipped>>
    /\ UNCHANGED <<collectVars, windowVars, callVars, serverVars>>

\* main returns failed == 0 and the script exits with 0 or 1
MasterExit ==
    /\ mpc = "loop"
    /\ script_idx = Len(Scripts(master))
    /\ exit_code' = IF failed = 0 THEN 0 ELSE 1
    /\ mpc' = "exited"
    /\ UNCHANGED <<master, script_idx, launched, results, successful, failed, skipped>>
    /\ UNCHANGED <<collectVars, windowVars, callVars, serverVars>>

(***************************************************************************)
(* The specifications: a collector run, a prepare_sequences call, a        *)
(* trainer's main, a sequence of direct calls, the data collection server  *)
(* and a master script.                                                    *)
(***************************************************************************)
CollectIdle ==
    /\ system = "lorenz"
    /\ num_trajectories = 0
    /\ samples_per_trajectory = 0
    /\ traj_id = 0
    /\ ic = None
    /\ sim = None
    /\ step = 0
    /\ trajectory = <<>>
    /\ result = None
    /\ all_samples = <<>>
    /\ dataset = NoDataset
    /\ rng = None
    /\ pc = "idle"

WindowIdle ==
    /\ trainer = "malkus"
    /\ sequence_length = 0
    /\ prediction_horizon = 0
    /\ datasets = <<>>
    /\ dataset_idx = 0
    /\ trajectory_groups = <<>>
    /\ group_idx = 0
    /\ X_list = <<>>
    /\ y_list = <<>>
    /\ returned = None
    /\ wpc = "idle"

CallIdle ==
    /\ fn = "idle"
    /\ obj = None
    /\ input = None
    /\ log = <<>>

ServerIdle ==
    /\ simulation_data = EmptyDict
    /\ clock = 0
    /\ handling = [th \in Threads |-> Idle]
    /\ responses = [th \in Threads |-> NoResponse]
    /\ served = 0

MasterIdle ==
    /\ master = "collect_all_data"
    /\ script_idx = 0
    /\ launched = <<>>
    /\ results = <<>>
    /\ successful = 0
    /\ failed = 0
    /\ skipped = 0
    /\ exit_code = -1
    /\ mpc = "idle"

CollectNext ==
    \/ BeginTrajectory
    \/ SimulateStep
    \/ EndTrajectory
    \/ CollectReturn
    \/ SaveDataset
    \/ Interrupt

WindowNext ==
    \/ GroupDataset
    \/ WindowPositions
    \/ SkipDataset
    \/ WindowGroup
    \/ GroupsDone
    \/ WindowReturn

CallNext ==
    \/ CallDerivatives
    \/ CallGyreStepEuler
    \/ CallMalkusStepEuler
    \/ CallMalkusRK4Step
    \/ CallStepRK4
    \/ CallClassifyBehavior
    \/ CallLyapunov
    \/ CallPredict

ServerNext ==
    \/ Tick
    \/ \E th \in Threads : HealthCheck(th)
    \/ \E th \in Threads : SubmitData(th)
    \/ \E th \in Threads : SubmitRespond(th)
    \/ \E th \in Threads : GetData(th)
    \/ \E th \in Threads : GetLatest(th)
    \/ \E th \in Threads : ListSimulations(th)
    \/ \E th \in Threads : ClearData(th)
    \/ \E th \in Threads : ClearAllData(th)

MasterNext ==
    \/ RunScript
    \/ MasterExit

InitCollect == CollectInit /\ WindowIdle /\ CallIdle /\ ServerIdle /\ MasterIdle

InitWindow == WindowInit /\ CollectIdle /\ CallIdle /\ ServerIdle /\ MasterIdle

InitTrain == TrainInit /\ CollectIdle /\ CallIdle /\ ServerIdle /\ MasterIdle

InitCall == CallInit /\ CollectIdle /\ WindowIdle /\ ServerIdle /\ MasterIdle

InitServer == ServerInit /\ CollectIdle /\ WindowIdle /\ CallIdle /\ MasterIdle

InitMaster == MasterInit /\ CollectIdle /\ WindowIdle /\ CallIdle /\ ServerIdle

SpecCollect == InitCollect /\ [][CollectNext]_vars

SpecWindow == InitWindow /\ [][WindowNext]_vars

SpecTrain == InitTrain /\ [][WindowNext]_vars

SpecCall == InitCall /\ [][CallNext]_vars

SpecServer == InitServer /\ [][ServerNext]_vars

SpecMaster == InitMaster /\ [][MasterNext]_vars

\* a master script waits for each child process and goes on when it has ended
SpecMasterFair == SpecMaster /\ WF_vars(MasterNext)

(***************************************************************************)
(* Properties of prepare_sequences (checked under SpecWindow).             *)
(***************************************************************************)

SeqRange(q) == {q[j] : j \in 1..Len(q)}

\* the points of trajectory k of a 'samples' file, in stored order
StoredPoints(d, k) ==
    LET sel == SelectSeq(d.samples, LAMBDA sm : sm.trajectory_id = k)
    IN  [j \in 1..Len(sel) |-> sel[j].features]

\* every trajectory handed to prepare_sequences, as its sequence of points
InputTrajectories ==
    UNION {IF "samples" \in DOMAIN datasets[f]
           THEN {StoredPoints(datasets[f], k) :
                    k \in {datasets[f].samples[j].trajectory_id : j \in 1..Len(datasets[f].samples)}}
           ELSE IF trainer = "three_body" /\ "positions" \in DOMAIN datasets[f]
                THEN {datasets[f].positions}
                ELSE {} : f \in 1..Len(datasets)}

\* the windows of the result whose input starts inside trajectory pts
WindowsFrom(pts) == {w \in 1..Len(X_list) : X_list[w][1] \in SeqRange(pts)}

TooShort(pts) == Len(pts) < sequence_length + prediction_horizon

\* C1: on return, each trajectory of num_steps points has contributed exactly
\* max(0, num_steps - sequence_length - prediction_horizon) windows
C1_WindowCount ==
    wpc = "returned" =>
        \A pts \in InputTrajectories :
            Cardinality(WindowsFrom(pts))
                = Max(0, Len(pts) - sequence_length - prediction_horizon)

C1_Witness ==
    /\ wpc = "returned"
    /\ \E pts \in InputTrajectories :
          /\ Len(pts) - sequence_length - prediction_horizon >= 2
          /\ Cardinality(WindowsFrom(pts)) >= 2
    /\ \E pts \in InputTrajectories : TooShort(pts)

\* the start indices the loop emits for trajectory pts
StartIndices(pts) == 0..(Len(pts) - sequence_length - prediction_horizon - 1)

\* window w is cut at start index i of pts, its target being proj of each output point
IsWindowAt(w, pts, i, proj(_)) ==
    /\ Len(X_list[w]) = sequence_length
    /\ Len(y_list[w]) = prediction_horizon
    /\ \A j \in 1..sequence_length : X_list[w][j] = pts[i + j]
    /\ \A j \in 1..prediction_horizon : y_list[w][j] = proj(pts[i + sequence_length + j])

Whole(p) == p

OmegaTheta(p) == <<p[1], p[2]>>

\* C2 as claimed: every window is (points[i : i+s], points[i+s : i+s+h]) of one
\* trajectory, input and output points carried whole
C2_WholePoints ==
    /\ Len(X_list) = Len(y_list)
    /\ \A w \in 1..Len(X_list) :
          \E pts \in InputTrajectories : \E i \in StartIndices(pts) : IsWindowAt(w, pts, i, Whole)

\* C2 amended: as claimed, except that train_malkus.py keeps of each output point
\* only its first two coordinates (omega, theta)
C2_Slices ==
    /\ Len(X_list) = Len(y_list)
    /\ \A w \in 1..Len(X_list) :
          \E pts \in InputTrajectories : \E i \in StartIndices(pts) :
              IF trainer = "malkus"
              THEN IsWindowAt(w, pts, i, OmegaTheta)
              ELSE IsWindowAt(w, pts, i, Whole)

C2_Witness ==
    /\ wpc = "returned"
    /\ trainer = "malkus"
    /\ prediction_horizon = 2
    /\ Len(X_list) >= 1
    /\ Len(y_list[1]) = 2
    /\ Len(y_list[1][1]) = 2

\* C3 as claimed: num_steps >= s + h gives at least one window, and only
\* trajectories strictly shorter than s + h give none
C3_AtLeastOneFromSum ==
    wpc = "returned" =>
        \A pts \in InputTrajectories :
            (WindowsFrom(pts) # {}) <=> (Len(pts) >= sequence_length + prediction_horizon)

\* C3 amended: a trajectory gives at least one window exactly when
\* num_steps >= s + h + 1; with num_steps = s + h it gives none
C3_AtLeastOneAboveSum ==
    wpc = "returned" =>
        \A pts \in InputTrajectories :
            (WindowsFrom(pts) # {}) <=> (Len(pts) >= sequence_length + prediction_horizon + 1)

C3_Witness ==
    /\ wpc = "returned"
    /\ \E pts \in InputTrajectories :
          Len(pts) = sequence_length + prediction_horizon /\ WindowsFrom(pts) = {}
    /\ \E pts \in InputTrajectories :
          Len(pts) = sequence_length + prediction_horizon + 1 /\ WindowsFrom(pts) # {}

\* C4: a too-short trajectory is passed over without error: when the call has
\* returned, that trajectory has given no window, every window of the other
\* trajectories of the same input has still been made, and when all trajectories
\* are too short the call has returned an empty window set
C4_ShortIsNoError ==
    /\ wpc = "returned" =>
          /\ \A pts \in InputTrajectories :
                IF TooShort(pts)
                THEN WindowsFrom(pts) = {}
                ELSE \A i \in StartIndices(pts) :
                        \E w \in 1..Len(X_list) :
                            /\ \A j \in 1..sequence_length : X_list[w][j] = pts[i + j]
                            /\ Len(y_list[w]) = prediction_horizon
          /\ (\A pts \in InputTrajectories : TooShort(pts)) =>
                returned = [X |-> <<>>, y |-> <<>>]

C4_Witness ==
    /\ wpc = "returned"
    /\ \E pts \in InputTrajectories : TooShort(pts)
    /\ \E pts \in InputTrajectories : ~TooShort(pts) /\ WindowsFrom(pts) # {}

(***************************************************************************)
(* Properties of a collector run (SpecCollect).                            *)
(***************************************************************************)
\* simulate_trajectory of the current traj_id has returned to collect_data
TrajectoryReturned == pc = "collect" /\ traj_id > 0

\* the integrator step simulate_trajectory uses
StepPolicy(sys, s) ==
    CASE sys = "lorenz" -> LorenzStepRK4(s)
      [] sys = "rossler" -> RosslerStepRK4(s)
      [] sys = "double_pendulum" -> DoublePendulumStepRK4(s)
      [] sys = "malkus" -> MalkusStepEuler(s)
      [] sys = "double_gyre" -> GyreStepEuler(s)

\* the TrajectoryPoint made from a simulator state
PointOf(sys, s, c) ==
    CASE sys = "lorenz" -> LorenzPoint(s, c)
      [] sys = "rossler" -> RosslerPoint(s, c)
      [] sys = "double_pendulum" -> DoublePendulumPoint(s)
      [] sys = "malkus" -> MalkusPoint(s, c)
      [] sys = "double_gyre" -> GyrePoint(s, c)

\* the simulator after k applications of the step policy to the initial state
RECURSIVE StateAfter(_, _, _)
StateAfter(sys, c, k) ==
    IF k = 0 THEN SimulateBegin(sys, c) ELSE StepPolicy(sys, StateAfter(sys, c, k - 1))

\* the state coordinates of a trajectory point
StateOf(sys, point) ==
    CASE sys = "lorenz" -> <<point.x, point.y, point.z>>
      [] sys = "rossler" -> <<point.x, point.y, point.z>>
      [] sys = "double_pendulum" -> <<point.theta1, point.omega1, point.theta2, point.omega2>>
      [] sys = "malkus" -> <<point.omega, point.theta, point.bucket_mass_sum>>
      [] sys = "double_gyre" -> <<point.x, point.y>>

PointIsFinite(sys, point) == IsFiniteVec(StateOf(sys, point))

\* C5: simulate_trajectory returns exactly num_steps points: every iteration
\* of its loop has appended one point, for every simulator, every initial
\* condition and every num_steps >= 0
C5_ExactlyNumSteps ==
    /\ pc = "simulate" => Len(trajectory) = step
    /\ TrajectoryReturned => Len(trajectory) = samples_per_trajectory

C5_Witness ==
    /\ TrajectoryReturned
    /\ system = "malkus"
    /\ samples_per_trajectory = MaxSteps
    /\ Len(trajectory) = MaxSteps

\* C6: in every trajectory the time of a point exceeds the time of the point
\* before it by exactly the simulator's dt, so that the time of the k-th point
\* is (k0 + k) * dt for one integer k0
C6_TimeGrid ==
    Len(trajectory) > 0 =>
        /\ sim.dt > 0
        /\ \A k \in 1..(Len(trajectory) - 1) :
              trajectory[k + 1].time - trajectory[k].time = sim.dt
        /\ \E k0 \in {0 - 1, 0} :
              \A k \in 1..Len(trajectory) : trajectory[k].time = (k0 + k) * sim.dt

C6_Witness ==
    /\ TrajectoryReturned
    /\ system = "malkus"
    /\ Len(trajectory) = MaxSteps
    /\ trajectory[MaxSteps].time = (MaxSteps - 1) * Dt

\* C7 as claimed: in every simulator the k-th recorded point holds the state
\* after the k-th application of the step policy
C7_PostStep ==
    \A k \in 1..Len(trajectory) :
        trajectory[k] = PointOf(system, StateAfter(system, ic, k), ic)

\* next-step labeling is done by these four collectors
LabelledSystems == {"lorenz", "rossler", "double_gyre", "malkus"}

\* the label made from a trajectory point
LabelOf(sys, point) ==
    IF sys = "malkus" THEN <<point.omega, point.theta>> ELSE StateOf(sys, point)

\* the samples collect_data made from trajectory tid, in order
SamplesOf(tid) == SelectSeq(all_samples, LAMBDA s : s.trajectory_id = tid)

\* C8 as claimed: every point i of a trajectory of N points gives one sample,
\* labelled with the state of point i + 1, the final point labelled with its
\* own state
C8_EveryPointLabelled ==
    (TrajectoryReturned /\ system \in LabelledSystems) =>
        LET made == SamplesOf(traj_id - 1)
            N == Len(trajectory)
        IN  /\ Len(made) = N
            /\ \A i \in 0..(N - 1) :
                  LET next == IF i = N - 1 THEN i ELSE i + 1
                  IN  /\ made[i + 1].timestep = i
                      /\ made[i + 1].current_state = StateOf(system, trajectory[i + 1])
                      /\ made[i + 1].next_state = StateOf(system, trajectory[next + 1])
                      /\ made[i + 1].labels = LabelOf(system, trajectory[next + 1])

Epsilon == Quot(Scale, 1000)

\* den1 or den2 of a call of derivatives is below Epsilon in magnitude
NearSingular(s) ==
    LET den == Denominators(s, FSub(s.state[3], s.state[1]))
    IN  FLess(FAbs(den.den1), Epsilon) \/ FLess(FAbs(den.den2), Epsilon)

InDomain(s) ==
    /\ ~FLess(s.state[1], 0) /\ ~FGreater(s.state[1], s.domainWidth)
    /\ ~FLess(s.state[2], 0) /\ ~FGreater(s.state[2], s.domainHeight)
    /\ IsFiniteVec(s.state)

\* the simulator a logged call left behind
After(i) == IF i < Len(log) THEN log[i + 1].given ELSE obj

\* dt * u and dt * v of the step taken from s
Displacement(s) ==
    LET uv == get_velocity(s, s.state[1], s.state[2], s.time)
    IN  [x |-> FScale(s.dt, Scale, uv.u), y |-> FScale(s.dt, Scale, uv.v)]

\* the step from s moves the particle by no more than the size of the domain
StepWithinDomainSize(s) ==
    /\ ~FGreater(FAbs(Displacement(s).x), s.domainWidth)
    /\ ~FGreater(FAbs(Displacement(s).y), s.domainHeight)

MassesNonNegative(s) ==
    \A j \in 1..s.num_buckets : s.bucket_masses[j] # NaN /\ s.bucket_masses[j] >= 0

\* the masses step_euler computes from s before it clamps them
UnclampedMasses(s) ==
    VAdd(s.bucket_masses, VScale(s.dt, Scale, MalkusDerivatives(s).dmasses))

Labels == {"periodic", "chaotic", "resonant"}

\* the average over i < len/2 of |w1[i] - w1[i + len/2]| + |w2[i] - w2[i + len/2]|
ClaimedCorr(traj) ==
    LET half == Len(traj) \div 2
    IN  NpMean([i \in 1..half |->
                  FAdd(FAbs(FSub(traj[i].omega1, traj[i + half].omega1)),
                       FAbs(FSub(traj[i].omega2, traj[i + half].omega2)))])

\* the label the decision rule gives: periodic, else resonant, else chaotic
ClaimedLabel(traj) ==
    LET corr == ClaimedCorr(traj)
        std1 == NpStd([k \in 1..(Len(traj) - 1) |-> FAbs(FSub(traj[k + 1].theta1, traj[k].theta1))])
        std2 == NpStd([k \in 1..(Len(traj) - 1) |-> FAbs(FSub(traj[k + 1].theta2, traj[k].theta2))])
        below(a, num) == a # NaN /\ 10 * a < num * Scale
    IN  IF below(corr, 30) /\ below(std1, 3) /\ below(std2, 3) THEN "periodic"
        ELSE IF below(corr, 50) /\ (below(std1, 5) \/ below(std2, 5)) THEN "resonant"
        ELSE "chaotic"

\* C14 as claimed: for any trajectory classify_behavior returns the label of
\* the decision rule
C14_RuleForAnyTrajectory ==
    fn = "classify_behavior" =>
        \A i \in 1..Len(log) : log[i].gave = ClaimedLabel(log[i].given.trajectory)

\* C14 amended: for a trajectory of at least 10 points classify_behavior
\* returns the label of the decision rule, and for a shorter one 'chaotic'
C14_RuleFromTenPoints ==
    fn = "classify_behavior" =>
        \A i \in 1..Len(log) :
            log[i].gave = IF Len(log[i].given.trajectory) >= 10
                          THEN ClaimedLabel(log[i].given.trajectory)
                          ELSE "chaotic"

\* a call on 10 points that the first rule passed over and the second labelled
C14_Witness ==
    /\ fn = "classify_behavior"
    /\ Len(input) = 10
    /\ Len(log) = MaxCalls
    /\ log[1].gave = "resonant"
    /\ ClaimedCorr(input) >= 3 * Scale

\* C15: classify_behavior returns one of the three labels for every
\* trajectory, and calls on the same trajectory return the same label whatever
\* the energy_drift argument and whatever was called before
C15_LabelDependsOnTrajectoryOnly ==
    fn = "classify_behavior" =>
        /\ \A i \in 1..Len(log) : log[i].gave \in Labels /\ ~log[i].raised
        /\ \A i, j \in 1..Len(log) :
              log[i].given.trajectory = log[j].given.trajectory => log[i].gave = log[j].gave

\* two calls on one trajectory with different energy_drift arguments
C15_Witness ==
    /\ fn = "classify_behavior"
    /\ Len(log) = MaxCalls
    /\ log[1].given.energy_drift # log[2].given.energy_drift
    /\ log[1].gave = "periodic"
    /\ log[2].gave = "periodic"

\* the valid indices of a trajectory: 10 <= i < len with a lag-10 distance
\* above 1e-10
ValidIndices(traj) ==
    {i \in 10..(Len(traj) - 1) : FGreater(LagDistance(traj, i), Tiny)}

\* the valid indices up to n, smallest first
RECURSIVE ValidUpTo(_, _)
ValidUpTo(traj, n) ==
    IF n < 10 THEN <<>>
    ELSE IF n \in ValidIndices(traj) THEN Append(ValidUpTo(traj, n - 1), n)
    ELSE ValidUpTo(traj, n - 1)

\* the mean of log(distance_i) over the valid indices, 0.0 when there is none
ClaimedLyapunov(traj) ==
    LET valid == ValidUpTo(traj, Len(traj) - 1)
    IN  IF Len(valid) = 0 THEN 0
        ELSE NpMean([k \in 1..Len(valid) |-> NpLog(LagDistance(traj, valid[k]))])

\* C16 as claimed: calculate_lyapunov_approximation returns the mean of
\* log(distance_i) over the valid indices whenever there is one, and 0.0 when
\* there is none
C16_MeanOverValid ==
    fn = "calculate_lyapunov_approximation" =>
        \A i \in 1..Len(log) : log[i].gave = ClaimedLyapunov(log[i].given.trajectory)

\* C16 amended: for a trajectory of at least 20 points the result is the mean
\* of log(distance_i) over the valid indices, 0.0 when there is none; for a
\* shorter trajectory it is 0.0 whether or not it has valid indices
C16_MeanOverValidFromTwenty ==
    fn = "calculate_lyapunov_approximation" =>
        \A i \in 1..Len(log) :
            log[i].gave = IF Len(log[i].given.trajectory) >= 20
                          THEN ClaimedLyapunov(log[i].given.trajectory)
                          ELSE 0

\* a call on at least 20 points, some of them valid and some not, with a mean
\* that is not 0.0
C16_Witness ==
    /\ fn = "calculate_lyapunov_approximation"
    /\ Len(log) = MaxCalls
    /\ Len(input) >= 20
    /\ ValidIndices(input) # {}
    /\ ValidIndices(input) # 10..(Len(input) - 1)
    /\ log[1].gave # 0

(***************************************************************************)
(* Properties of a collector run as a function of the generator's seed     *)
(* (SpecCollect).                                                          *)
(***************************************************************************)
\* the initial conditions trajectory tid gets from the seed of the run
SeededConditions(tid) ==
    generate_random_initial_conditions(
        system, Drawn([seed |-> rng.seed, pos |-> tid * NumDraws(system)], NumDraws(system)))

\* simulate_trajectory after k iterations from initial conditions c
RECURSIVE SimulatedTo(_, _)
SimulatedTo(c, k) ==
    IF k = 0 THEN [sim |-> SimulateBegin(system, c), trajectory |-> <<>>]
    ELSE Only({SimulateIteration(system, before.sim, c, before.trajectory)
               : before \in {SimulatedTo(c, k - 1)}})

\* the samples of the trajectories 0 .. n - 1 of the run
RECURSIVE SeededSamples(_)
SeededSamples(n) ==
    IF n = 0 THEN <<>>
    ELSE Only({Only({SeededSamples(n - 1) \o
                     Samples(system, n - 1, run.trajectory, c,
                             IF system = "double_pendulum"
                             THEN DoublePendulumSimulateEnd(
                                      run.sim,
                                      [initial_energy |-> get_energy(SimulateBegin(system, c))],
                                      run.trajectory)
                             ELSE None)
                     : run \in {SimulatedTo(c, samples_per_trajectory)}})
               : c \in {SeededConditions(n - 1)}})

Unserved == [time |-> 0, energy |-> 0, x1 |-> 0, y1 |-> 0, x2 |-> 0, y2 |-> 0]

\* the feature vector the system's collector writes for a point with the
\* quantities of a request body
CollectorFeatures(f, data) ==
    CASE f = "predict_lorenz" -> LorenzSamples(0, <<data, data>>)[1].features
      [] f = "predict_rossler" -> RosslerSamples(0, <<data, data>>)[1].features
      [] f = "predict_double_gyre" -> GyreSamples(0, <<data, data>>)[1].features
      [] f = "predict_malkus_waterwheel" -> MalkusSamples(0, <<data, data>>)[1].features
      [] f = "predict_double_pendulum" ->
            DoublePendulumSamples(0, <<data @@ Unserved>>, data,
                                  [energy_drift |-> 0, lyapunov |-> 0, label |-> "chaotic"])[1].features

\* the names under which a request body carries the quantities of a state
StateKeys(f) ==
    CASE f = "predict_lorenz" -> {"x", "y", "z", "sigma", "rho", "beta", "time"}
      [] f = "predict_rossler" -> {"x", "y", "z", "a", "b", "c", "time"}
      [] f = "predict_double_gyre" -> {"x", "y", "A", "epsilon", "omega", "time"}
      [] f = "predict_malkus_waterwheel" ->
            {"omega", "theta", "bucket_mass_sum", "Q", "K", "nu", "time"}
      [] f = "predict_double_pendulum" ->
            {"theta1", "omega1", "theta2", "omega2", "l1", "l2", "m1", "m2"}

\* the single-state vectors inside an input: the rows of the one sequence
\* of a batch, or for the double pendulum the one row of the array
ServedVectors(f, input_data) ==
    IF f = "predict_double_pendulum" THEN input_data ELSE input_data[1]

\* C18: for every system each position of the input the server builds holds
\* the quantity that the collector's feature vector holds in that position
C18_SamePositions ==
    fn \in PredictFunctions =>
        \A i \in 1..Len(log) :
            LET request == log[i].given.request
                rows == ServedVectors(fn, log[i].gave.input_data)
            IN  (log[i].gave.status = 200 /\ StateKeys(fn) \subseteq DOMAIN request.data) =>
                    \A row \in DOMAIN rows :
                        \A j \in DOMAIN rows[row] :
                            rows[row][j] = CollectorFeatures(fn, request.data)[j]

\* C18 for the four systems whose handler tiles a state: the positions agree
C18_TiledStatesAgree ==
    fn \in PredictFunctions \ {"predict_double_pendulum"} => C18_SamePositions

(***************************************************************************)
(* Properties of the written dataset (SpecCollect).                        *)
(***************************************************************************)
\* names under which a metadata entry could carry the label names, and the
\* parameter values or ranges of the system
LabelNameKeys == {"labelNames", "labels"}

ParameterKeys == {"parameters", "parameterRanges", "parameterValues", "timestep"}

\* the feature-name list is as long as every sample's feature vector
FeatureNamesFit ==
    \A i \in 1..Len(dataset.samples) :
        Len(dataset.metadata.featureNames) = Len(dataset.samples[i].features)

\* C19: the metadata of every written dataset has a generation timestamp, the
\* system identifier, the feature names, the label names, the total sample
\* count and the parameter values or ranges of the system, and the feature
\* names fit every sample's feature vector
C19_MetadataComplete ==
    dataset.written =>
        /\ {"generated", "simulator", "featureNames", "totalSamples"} \subseteq DOMAIN dataset.metadata
        /\ LabelNameKeys \cap DOMAIN dataset.metadata # {}
        /\ ParameterKeys \cap DOMAIN dataset.metadata # {}
        /\ dataset.metadata.totalSamples = Len(dataset.samples)
        /\ FeatureNamesFit

\* what every collector does write: timestamp, system, feature names fitting
\* the samples, and the sample count
C19_WrittenByAll ==
    dataset.written =>
        /\ {"generated", "simulator", "featureNames", "totalSamples"} \subseteq DOMAIN dataset.metadata
        /\ dataset.metadata.generated \in Clocks
        /\ dataset.metadata.simulator = SimulatorName(system)
        /\ dataset.metadata.totalSamples = Len(dataset.samples)
        /\ FeatureNamesFit

\* C20: a run writes its dataset once, after the last trajectory has been
\* turned into samples: nothing is written while trajectories are generated,
\* nothing by a run that is interrupted or fails, and the one write of a run
\* that completes is the step from save_dataset's call to the end of the run
C20_WrittenOnceAtTheEnd ==
    /\ [](pc \in {"collect", "simulate", "save", "interrupted", "failed"} => dataset = NoDataset)
    /\ [](pc = "done" =>
            /\ dataset.written
            /\ traj_id = num_trajectories
            /\ dataset.samples = all_samples)
    /\ [][dataset' # dataset => (pc = "save" /\ pc' = "done" /\ dataset = NoDataset)]_vars

\* a completed run of MaxTraj trajectories with its dataset written
C20_Witness ==
    /\ pc = "done"
    /\ num_trajectories = MaxTraj
    /\ dataset.written
    /\ Len(dataset.samples) > MaxSteps

\* a run interrupted after its first trajectory, with nothing written
C20_InterruptedWitness ==
    /\ pc = "interrupted"
    /\ traj_id > 0
    /\ dataset = NoDataset

(***************************************************************************)
(* Properties of the step methods (SpecCall).                              *)
(***************************************************************************)
StepFunctions ==
    StepRK4Functions \cup {"gyre_step_euler", "malkus_step_euler", "malkus_rk4_step"}

\* the attributes of a simulator that make up its state
StateFields(s) == DOMAIN s \cap {"state", "omega", "theta", "bucket_masses"}

\* C21: a step method stores no intermediate stage value into the simulator:
\* during one call each attribute of the state is assigned at most once, and
\* what is assigned is its post-step value
C21_NoPartialUpdate ==
    fn \in StepFunctions =>
        \A i \in 1..Len(log) :
            /\ \A k \in 1..Len(log[i].stores) :
                  log[i].stores[k].value = After(i)[log[i].stores[k].field]
            /\ \A k, l \in 1..Len(log[i].stores) :
                  log[i].stores[k].field = log[i].stores[l].field => k = l

\* what holds of the five step methods simulate_trajectory and the claims of
\* the integrators rely on: the steppers other than the waterwheel's rk4_step
\* assign every attribute once
C21_SingleAssignmentElsewhere ==
    fn \in StepFunctions \ {"malkus_rk4_step"} => C21_NoPartialUpdate

\* the slope of system sys at the point p, for the parameters of simulator s
Slope(sys, s, p) == Derivatives(sys, s, p)

\* the point s + (num / den) * dt * k
Along(s, num, den, k) == VAdd(s.state, VScale(num * s.dt, den * Scale, k))

\* the four points of a classical Runge-Kutta step from the state of s
RungeKuttaPoints(sys, s) ==
    Only({Only({<<s.state, p2, p3, Along(s, 1, 1, Slope(sys, s, p3))>>
                : p3 \in {Along(s, 1, 2, Slope(sys, s, p2))}})
          : p2 \in {Along(s, 1, 2, Slope(sys, s, s.state))}})

\* s + dt/6 * (k1 + 2 k2 + 2 k3 + k4) for the slopes at the four points
RungeKuttaState(sys, s) ==
    Only({Only({VAdd(s.state, VScale(s.dt, 6 * Scale, sum))
                : sum \in {VAdd(VAdd(VAdd(Slope(sys, s, at[1]),
                                          VScale(2, 1, Slope(sys, s, at[2]))),
                                     VScale(2, 1, Slope(sys, s, at[3]))),
                                Slope(sys, s, at[4]))}})
          : at \in {RungeKuttaPoints(sys, s)}})

\* C22: a step_rk4 of the Lorenz, Roessler or double-pendulum simulator calls
\* the derivative four times, at s, s + dt/2 k1, s + dt/2 k2 and s + dt k3,
\* sets the state to s + dt/6 (k1 + 2 k2 + 2 k3 + k4) and adds dt to the time
C22_FourStages ==
    fn \in StepRK4Functions =>
        \A i \in 1..Len(log) :
            /\ Len(log[i].evaluated) = 4
            /\ log[i].evaluated = RungeKuttaPoints(SystemOfStep(fn), log[i].given)
            /\ After(i).state = RungeKuttaState(SystemOfStep(fn), log[i].given)
            /\ After(i).time = log[i].given.time + log[i].given.dt

\* two steps of a Lorenz simulator whose four points differ from one another
C22_Witness ==
    /\ fn = "lorenz_step_rk4"
    /\ Len(log) = MaxCalls
    /\ \A k, l \in 1..4 : k # l => log[1].evaluated[k] # log[1].evaluated[l]
    /\ IsFiniteVec(obj.state)
    /\ obj.state # log[1].given.state
    /\ obj.time = MaxCalls * Dt

\* omega, theta and the bucket masses of a waterwheel as one state
WheelState(s) == [omega |-> s.omega, theta |-> s.theta, bucket_masses |-> s.bucket_masses]

\* the waterwheel s moved from its own state by (num / den) * dt * d
WheelAlong(s, num, den, d) == MalkusTemp(s, d, num, den)

\* the classical Runge-Kutta step of the waterwheel: the four slopes are taken
\* at s, s + dt/2 k1, s + dt/2 k2 and s + dt k3, each from the pre-step state
RungeKuttaWheel(s) ==
    Only({Only({Only({Only({
        [omega |-> FAdd(s.omega, FScale(s.dt, 6 * Scale,
                        FAdd(FAdd(FAdd(k1.domega, FScale(2, 1, k2.domega)),
                                  FScale(2, 1, k3.domega)), k4.domega))),
         theta |-> FAdd(s.theta, FScale(s.dt, 6 * Scale,
                        FAdd(FAdd(FAdd(k1.dtheta, FScale(2, 1, k2.dtheta)),
                                  FScale(2, 1, k3.dtheta)), k4.dtheta))),
         bucket_masses |-> VAdd(s.bucket_masses, VScale(s.dt, 6 * Scale,
                        VAdd(VAdd(VAdd(k1.dmasses, VScale(2, 1, k2.dmasses)),
                                  VScale(2, 1, k3.dmasses)), k4.dmasses)))]
        : k4 \in {MalkusDerivatives(WheelAlong(s, 1, 1, k3))}})
        : k3 \in {MalkusDerivatives(WheelAlong(s, 1, 2, k2))}})
        : k2 \in {MalkusDerivatives(WheelAlong(s, 1, 2, k1))}})
        : k1 \in {MalkusDerivatives(s)}})

\* C23: rk4_step of the waterwheel is not the classical step: it calls
\* derivatives() six times, the fifth and sixth time inside its Combine lines
\* on the object the k4 stage left, takes each stage from the object the stage
\* before left instead of from the pre-step state, leaves the bucket masses at
\* the clamped k4 stage values and leaves the time alone
C23_NotTheClassicalStep ==
    fn = "malkus_rk4_step" =>
        \A i \in 1..Len(log) :
            LET at == log[i].evaluated
            IN  /\ Len(at) = 6
                /\ at[1] = log[i].given
                /\ at[3] = WheelAlong(at[2], 1, 2, MalkusDerivatives(at[2]))
                /\ at[4] = WheelAlong(at[3], 1, 1, MalkusDerivatives(at[3]))
                /\ at[5] = at[4]
                /\ at[6] = [at[4] EXCEPT !.omega = After(i).omega]
                /\ After(i).bucket_masses = NpMaximum0(at[4].bucket_masses)
                /\ After(i).time = log[i].given.time

\* a call of rk4_step whose omega, theta and bucket masses all differ from
\* those of the classical step
C23_Witness ==
    /\ fn = "malkus_rk4_step"
    /\ Len(log) > 0
    /\ After(1).omega # RungeKuttaWheel(log[1].given).omega
    /\ After(1).theta # RungeKuttaWheel(log[1].given).theta
    /\ After(1).bucket_masses # RungeKuttaWheel(log[1].given).bucket_masses
    /\ MassesNonNegative(log[1].given)

(***************************************************************************)
(* Properties of a trainer's main: load_training_data, then                *)
(* prepare_sequences (checked under SpecTrain).                            *)
(***************************************************************************)

\* the points t0, t0 + 1, ..., t0 + n - 1 of trajectory k generated into file f
GeneratedRun(f, k, t0, n) == [j \in 1..n |-> Feature(f, k, t0 + j - 1)]

\* the window's input and target are consecutive points of one generated trajectory
FromOneTrajectory(X_seq, y_seq) ==
    \E f \in 1..MaxFiles, k \in 0..(MaxGroups - 1), t0 \in 0..MaxLen :
        /\ X_seq = GeneratedRun(f, k, t0, sequence_length)
        /\ y_seq = Target(trainer, GeneratedRun(f, k, t0 + sequence_length, prediction_horizon))

\* C24: every window is sequence_length + prediction_horizon feature vectors of
\* one single generated trajectory at consecutive timesteps, whichever files
\* were loaded and in whichever order their samples are stored
C24_OneTrajectoryPerWindow ==
    \A w \in 1..Len(X_list) : FromOneTrajectory(X_list[w], y_list[w])

\* what does hold: when every loaded file stores its samples in ascending
\* timestep order and no trajectory_id reaches the double-pendulum trainer from
\* two files, every window is of one generated trajectory
C24_OneTrajectoryWhenIdsDistinct ==
    datasets \in Inputs(trainer) => C24_OneTrajectoryPerWindow

(***************************************************************************)
(* Properties of the sample list of collect_data (checked under            *)
(* SpecCollect).                                                           *)
(***************************************************************************)

\* the time recorded in a sample: its own entry in the double-pendulum
\* dataset, the last feature elsewhere
SampleTime(sys, sample) ==
    IF sys = "double_pendulum" THEN sample.time ELSE sample.features[Len(sample.features)]

\* C25: the sample list is in ascending trajectory_id and, within a
\* trajectory, in ascending timestep; the timesteps of a trajectory are
\* 0, 1, 2, ... and each is the index of the point the sample was made from,
\* so that no two samples share (trajectory_id, timestep)
C25_OrderedAndNumbered ==
    /\ \A i, j \in 1..Len(all_samples) :
          i < j => \/ all_samples[i].trajectory_id < all_samples[j].trajectory_id
                   \/ /\ all_samples[i].trajectory_id = all_samples[j].trajectory_id
                      /\ all_samples[i].timestep < all_samples[j].timestep
    /\ \A tid \in 0..(traj_id - 1) :
          \A n \in 1..Len(SamplesOf(tid)) : SamplesOf(tid)[n].timestep = n - 1
    /\ TrajectoryReturned =>
          \A n \in 1..Len(SamplesOf(traj_id - 1)) :
              LET sample == SamplesOf(traj_id - 1)[n]
              IN  SampleTime(system, sample) = trajectory[sample.timestep + 1].time
    /\ \A i, j \in 1..Len(all_samples) :
          (/\ all_samples[i].trajectory_id = all_samples[j].trajectory_id
           /\ all_samples[i].timestep = all_samples[j].timestep) => i = j

\* collect_data has returned MaxTraj trajectories of MaxSteps points each
C25_Witness ==
    /\ pc = "save"
    /\ num_trajectories = MaxTraj
    /\ samples_per_trajectory = MaxSteps
    /\ \A tid \in 0..(MaxTraj - 1) : Len(SamplesOf(tid)) >= MaxSteps - 1
    /\ all_samples[Len(all_samples)].trajectory_id = MaxTraj - 1
    /\ all_samples[Len(all_samples)].timestep > 0

\* the system parameters generate_random_initial_conditions sampled for a trajectory
SampledParameters(sys, c) ==
    CASE sys = "lorenz" -> <<c.sigma, c.rho, c.beta>>
      [] sys = "rossler" -> <<c.a, c.b, c.c>>
      [] sys = "double_pendulum" -> <<c.l1, c.l2, c.m1, c.m2>>
      [] sys = "malkus" -> <<c.Q, c.K, c.nu>>
      [] sys = "double_gyre" -> <<c.A, c.epsilon, c.omega>>

\* the system parameters a sample carries in its feature vector
CarriedParameters(sys, sample) ==
    CASE sys = "double_pendulum" -> SubSeq(sample.features, 5, 8)
      [] sys = "double_gyre" -> SubSeq(sample.features, 3, 5)
      [] OTHER -> SubSeq(sample.features, 4, 6)

\* C26: the samples of one trajectory all carry the system parameters sampled
\* for that trajectory, and in the double-pendulum dataset also one class
\* label and one lyapunov value
C26_ParametersFixedPerTrajectory ==
    /\ \A i, j \in 1..Len(all_samples) :
          all_samples[i].trajectory_id = all_samples[j].trajectory_id =>
              /\ CarriedParameters(system, all_samples[i]) = CarriedParameters(system, all_samples[j])
              /\ system = "double_pendulum" =>
                    /\ all_samples[i].label = all_samples[j].label
                    /\ all_samples[i].features[10] = all_samples[j].features[10]
                    /\ all_samples[i].metadata.lyapunov = all_samples[j].metadata.lyapunov
    /\ TrajectoryReturned =>
          \A n \in 1..Len(SamplesOf(traj_id - 1)) :
              /\ CarriedParameters(system, SamplesOf(traj_id - 1)[n]) = SampledParameters(system, ic)
              /\ system = "double_pendulum" =>
                    /\ SamplesOf(traj_id - 1)[n].label = result.label
                    /\ SamplesOf(traj_id - 1)[n].features[10] = result.lyapunov

\* two trajectories of several samples each were collected under different
\* parameters, and the state moved between the samples of the second
C26_Witness ==
    /\ TrajectoryReturned
    /\ traj_id = MaxTraj
    /\ Len(SamplesOf(0)) > 1
    /\ Len(SamplesOf(1)) > 1
    /\ CarriedParameters(system, SamplesOf(0)[1]) # CarriedParameters(system, SamplesOf(1)[1])
    /\ SamplesOf(1)[1].features[1] # SamplesOf(1)[Len(SamplesOf(1))].features[1]

\* C27: collect_data returns num_trajectories * samples_per_trajectory samples,
\* the total it announces, in every collector, and the totalSamples entry of
\* the written metadata is the number of samples in the file
C27_AnnouncedTotal ==
    /\ pc \in {"save", "done", "failed"} =>
          Len(all_samples) = num_trajectories * samples_per_trajectory
    /\ dataset # NoDataset => dataset.metadata.totalSamples = Len(dataset.samples)

\* what does hold: the waterwheel collector makes no sample from the last
\* point of a trajectory, every other collector makes one from every point
C27_WaterwheelOneShort ==
    /\ pc \in {"save", "done", "failed"} =>
          Len(all_samples) =
              IF system = "malkus"
              THEN num_trajectories * Max(samples_per_trajectory - 1, 0)
              ELSE num_trajectories * samples_per_trajectory
    /\ dataset # NoDataset => dataset.metadata.totalSamples = Len(dataset.samples)

(***************************************************************************)
(* Properties of the data collection server (checked under SpecServer).    *)
(***************************************************************************)

\* what get_recent_data returned was at most MAX_AGE_SECONDS old when returned
RecentDataFresh(r) ==
    (r.handler = "get_data" /\ r.status = 200) =>
        \A j \in 1..Len(r.body.timestamps) : r.at - r.body.timestamps[j] <= MAX_AGE_SECONDS

\* the point get_latest returned was at most MAX_AGE_SECONDS old when returned
LatestFresh(r) ==
    (r.handler = "get_latest" /\ r.status = 200) => r.body.age_seconds <= MAX_AGE_SECONDS

\* the points get_summary reported on were at most MAX_AGE_SECONDS old
SummaryFresh(r) ==
    (r.handler = "get_summary" /\ r.body.available) =>
        /\ r.at - r.body.last_update <= MAX_AGE_SECONDS
        /\ r.body.time_span <= MAX_AGE_SECONDS

\* a store holds at most MAX_DATA_POINTS points, oldest first
StoresBounded ==
    \A id \in DOMAIN simulation_data :
        LET q == simulation_data[id].data_points
        IN  /\ Len(q) <= MAX_DATA_POINTS
            /\ \A j \in 1..(Len(q) - 1) : q[j].timestamp <= q[j + 1].timestamp

\* C28: no data point older than MAX_AGE_SECONDS is returned by
\* get_recent_data, get_latest or get_summary, a store never holds more than
\* MAX_DATA_POINTS points, and its points are in non-decreasing timestamp
\* order with the newest last
C28_OnlyLastTenSeconds ==
    /\ \A th \in Threads :
          RecentDataFresh(responses[th]) /\ LatestFresh(responses[th]) /\ SummaryFresh(responses[th])
    /\ StoresBounded

\* what does hold: the part about get_recent_data and about the stores
C28_RecentDataAndStores ==
    /\ \A th \in Threads : RecentDataFresh(responses[th])
    /\ StoresBounded

\* C29: under any interleaving of submit_data, clear_data and clear_all_data
\* requests, a submit_data request that passed validation and stored its data
\* point is answered with success and with the size of a store that holds
\* the point, never with an error
C29_AcceptedSubmitSucceeds ==
    \A th \in Threads :
        (responses[th].handler = "submit_data" /\ responses[th].status # 400) =>
            /\ responses[th].status = 200
            /\ responses[th].body.status = "success"
            /\ responses[th].body.data_points_stored >= 1

\* what does hold: a submit_data request is answered with an error after it
\* stored its point only if the store is gone when the response is built
C29_ErrorOnlyWithoutStore ==
    [][\A th \in Threads :
          (handling[th].handler = "submit_data" /\ handling'[th] = Idle) =>
              (responses'[th].status = 200
                  <=> handling[th].simulation_id \in DOMAIN simulation_data)]_vars

(***************************************************************************)
(* Properties of the master scripts (checked under SpecMasterFair).        *)
(***************************************************************************)

\* the position of a script in the configured list
Position(m, script_name) ==
    CHOOSE i \in 1..Len(Scripts(m)) : Scripts(m)[i] = script_name

\* the scripts handed to subprocess.run are in list order, none twice
LaunchedInListOrder ==
    \A a, b \in 1..Len(launched) :
        a < b => Position(master, launched[a]) < Position(master, launched[b])

\* on completion the counters add up to the number of configured scripts and
\* the exit code is 0 exactly when no script failed
CountsAndExitCode ==
    mpc = "exited" =>
        /\ script_idx = Len(Scripts(master))
        /\ successful + failed + skipped = Len(Scripts(master))
        /\ master = "collect_all_data" => skipped = 0
        /\ exit_code \in {0, 1}
        /\ exit_code = 0 <=> failed = 0

\* C30 as claimed: on completion every configured script has been run exactly
\* once, in list order, the counters add up to the number of configured
\* scripts and the exit code is 0 exactly when no script failed
C30_EveryScriptRun ==
    /\ mpc = "exited" => launched = Scripts(master)
    /\ CountsAndExitCode

\* C30: the loop goes through every configured script exactly once, in list
\* order, whatever became of the earlier ones, and the run completes; a script
\* is handed to subprocess.run at most once, in list order, every script
\* recorded as a success was run and no skipped script was; on completion the
\* counters add up to the number of configured scripts and the exit code is 0
\* exactly when no script failed
C30_EveryScriptGoneThroughOnce ==
    /\ [](/\ Len(results) = script_idx
          /\ successful + failed + skipped = script_idx
          /\ LaunchedInListOrder
          /\ \A i \in 1..script_idx :
                /\ results[i] = "success" =>
                      \E a \in 1..Len(launched) : launched[a] = Scripts(master)[i]
                /\ results[i] = "skipped" =>
                      \A a \in 1..Len(launched) : launched[a] # Scripts(master)[i]
          /\ \A a \in 1..Len(launched) : Position(master, launched[a]) <= script_idx
          /\ CountsAndExitCode)
    /\ [][script_idx' # script_idx =>
              /\ script_idx' = script_idx + 1
              /\ SubSeq(results', 1, script_idx) = results
              /\ SubSeq(launched', 1, Len(launched)) = launched]_vars
    /\ [][launched' # launched =>
              launched' = Append(launched, Scripts(master)[script_idx + 1])]_vars
    /\ <>(mpc = "exited")

\* a completed run of train_all_simulations in which scripts succeeded, failed
\* and were skipped, the first one failing
C30_Witness ==
    /\ mpc = "exited"
    /\ master = "train_all_simulations"
    /\ results[1] = "failed"
    /\ successful > 0
    /\ skipped > 0
    /\ Len(launched) < script_idx
    /\ exit_code = 1

====
